---- MODULE Spec2Model ----
(***************************************************************************)
(* The schema builder and the conditional-value resolution engine of       *)
(* src/core/schema.rs.                                                     *)
(*                                                                         *)
(* Representation.                                                         *)
(*   Option<T>      None is << >>, Some(x) is <<x>>.                       *)
(*   Arc<Field>     an index into fieldArcs (the Arc allocations, in the   *)
(*                  order Arc::new was called); Arc<Schema> likewise an    *)
(*                  index into schemaArcs. An Arc's content never changes. *)
(*   AHashMap       a function whose domain is the set of keys.            *)
(*   Vec<T>         a sequence.                                            *)
(*   enum values    a tuple headed by the variant's name:                  *)
(*                  <<"List">>, <<"Entry", p>>, <<"Record", p, s>>,        *)
(*                  <<"Input">>, <<"Select", <<"Static", items>>>>,        *)
(*                  <<"Select", <<"Dynamic", schema, field>>>>.            *)
(*   panic!         stage becomes "panicked" and panic holds the message;  *)
(*                  no call follows a panic.                               *)
(***************************************************************************)
EXTENDS Integers, Sequences, FiniteSets, TLC

VARIABLES
    stage,       \* which Builder<P, I> (or the finished Schemas) exists
    schemas,     \* Schemas.schemas: schema id -> Arc<Schema>
    schemaArcs,  \* every Arc<Schema> allocated so far
    fieldArcs,   \* every Arc<Field> allocated so far
    schema,      \* the Schema in progress (item, or parent.1)
    field,       \* the Field in progress
    section,     \* the Section in progress
    panic,       \* None, or Some(message of the panic that ended the run)
    call         \* the last call made: its name, arguments and return value

vars == <<stage, schemas, schemaArcs, fieldArcs, schema, field, section, panic, call>>

----------------------------------------------------------------------------
(* Option, maps *)

None == << >>

Some(x) == <<x>>

EmptyMap == << >>

MapInsert(m, k, v) == [x \in (DOMAIN m) \cup {k} |-> IF x = k THEN v ELSE m[x]]

MapGet(m, k) == IF k \in DOMAIN m THEN Some(m[k]) ELSE None

----------------------------------------------------------------------------
(* Default values of the structs *)

DefaultValue == [if_thens |-> << >>, default |-> None]

DefaultField ==
    [id |-> "", label_form |-> "", label_column |-> "", help |-> None,
     checks |-> DefaultValue, typ_ |-> <<"Expression">>,
     default |-> DefaultValue, placeholder |-> DefaultValue,
     display |-> << >>, readonly |-> FALSE]

DefaultSection == [title |-> None, display |-> << >>, fields |-> << >>]

DefaultSchema ==
    [id |-> "", name_singular |-> "", name_plural |-> "", fields |-> EmptyMap,
     typ |-> <<"List">>,
     list |-> [title |-> "", subtitle |-> "", fields |-> << >>,
               actions |-> << >>, page_size |-> 0],
     form |-> [title |-> "", subtitle |-> "", sections |-> << >>,
               actions |-> << >>]]

InputCheckNew(transformers, validators) ==
    [transformers |-> transformers, validators |-> validators]

----------------------------------------------------------------------------
(* The value source and the resolution engine *)

\* The value source is a FormData: the struct of values, errors, schema and
\* is_update. Every other value source of the model is a Settings, the map from
\* key to stored string.
IsFormData(settings) == DOMAIN settings = {"values", "errors", "schema", "is_update"}

\* Not the code: a FormData source that gives the first string of an Array as
\* the value of the key. C26 tells it from the impl for FormData.
FormDataGetFirstOfArray(form, key) ==
    IF key \in DOMAIN form.values
    THEN IF form.values[key][1] = "Value"
         THEN Some(form.values[key][2])
         ELSE IF form.values[key][2] # << >>
              THEN Some(form.values[key][2][1])
              ELSE None
    ELSE None

\* impl SettingsValue for FormData: the string of a FormValue::Value; None for
\* any other FormValue and for a key with no entry.
FormDataGet(form, key) ==
    IF key \in DOMAIN form.values
    THEN IF form.values[key][1] = "Value" THEN Some(form.values[key][2]) ELSE None
    ELSE None

\* SettingsValue::get, by the type of the value source: the impl for FormData,
\* or the impl for Settings (the stored string, or None).
SettingsGet(settings, key) ==
    IF IsFormData(settings) THEN FormDataGet(settings, key) ELSE MapGet(settings, key)

\* Not the code: an Eval::eval that is false whenever the field has no value.
\* C3 tells it from Eval::eval.
EvalEvalNoneFailsClosed(eval, settings) ==
    LET value == SettingsGet(settings, fieldArcs[eval.field].id)
    IN  IF eval.condition = "MatchAny"
        THEN \E i \in 1..Len(eval.values) : value = Some(eval.values[i])
        ELSE /\ value # None
             /\ \A i \in 1..Len(eval.values) : value # Some(eval.values[i])

\* Not the code: an Eval::eval whose MatchAny takes an empty list of values as
\* no condition at all. C23 tells it from Eval::eval.
EvalEvalEmptyMatchesAll(eval, settings) ==
    LET value == SettingsGet(settings, fieldArcs[eval.field].id)
    IN  IF eval.condition = "MatchAny"
        THEN \/ eval.values = << >>
             \/ \E i \in 1..Len(eval.values) : value = Some(eval.values[i])
        ELSE \A i \in 1..Len(eval.values) : value # Some(eval.values[i])

\* Eval::eval
EvalEval(eval, settings) ==
    LET value == SettingsGet(settings, fieldArcs[eval.field].id)
    IN  IF eval.condition = "MatchAny"
        THEN \E i \in 1..Len(eval.values) : value = Some(eval.values[i])
        ELSE \A i \in 1..Len(eval.values) : value # Some(eval.values[i])

RECURSIVE ValueEvalFrom(_, _, _)
\* The for loop of Value::eval from rule i on.
ValueEvalFrom(value, i, settings) ==
    IF i > Len(value.if_thens)
    THEN value.default
    ELSE IF EvalEval(value.if_thens[i].eval, settings)
         THEN Some(value.if_thens[i].value)
         ELSE ValueEvalFrom(value, i + 1, settings)

RECURSIVE ValueEvalLastFrom(_, _, _)
\* Not the code: the last matching rule from position i down, else the fallback.
ValueEvalLastFrom(value, i, settings) ==
    IF i < 1
    THEN value.default
    ELSE IF EvalEval(value.if_thens[i].eval, settings)
         THEN Some(value.if_thens[i].value)
         ELSE ValueEvalLastFrom(value, i - 1, settings)

\* Not the code: a Value::eval where the last matching rule wins. C1 tells it
\* from Value::eval.
ValueEvalLastMatch(value, settings) ==
    ValueEvalLastFrom(value, Len(value.if_thens), settings)

\* Not the code: a Value::eval that uses the fallback only when there are no
\* rules. C2 tells it from Value::eval.
ValueEvalFallbackOnlyWhenEmpty(value, settings) ==
    IF value.if_thens = << >>
    THEN value.default
    ELSE ValueEvalFrom([value EXCEPT !.default = None], 1, settings)

\* Value::eval
ValueEval(value, settings) == ValueEvalFrom(value, 1, settings)

\* Not the code: a display that needs every condition to hold. C4 tells it from
\* Field::display.
DisplayAll(display, settings) ==
    \A i \in 1..Len(display) : EvalEval(display[i], settings)

\* Field::display and Section::display (the same body)
Display(display, settings) ==
    \/ Len(display) = 0
    \/ \E i \in 1..Len(display) : EvalEval(display[i], settings)

----------------------------------------------------------------------------
(* Panics *)

\* panic!("Field {field:?} not found in schema {:?}.", schema.id)
FieldNotFound(id, sid) ==
    [text |-> "Field not found in schema", field |-> Some(id), schema |-> Some(sid)]

\* .expect("Schema not found.") in Builder<(Schemas, Schema), Field>::schema
SchemaNotFoundExpect ==
    [text |-> "Schema not found.", field |-> None, schema |-> None]

\* panic!("Schema {id:?} not found.") in Schemas::get
SchemaNotFound(id) ==
    [text |-> "Schema not found", field |-> None, schema |-> Some(id)]

\* panic!("Schema type is not List.") in prefix
NotList == [text |-> "Schema type is not List.", field |-> None, schema |-> None]

\* panic!("Schema type is not Record.") in suffix
NotRecord == [text |-> "Schema type is not Record.", field |-> None, schema |-> None]

\* What a call returned: nothing worth recording, a value, or a panic
Ok == <<"ok">>

Returned(x) == <<"ok", x>>

Panicked == <<"panic">>

Called(op, args, ret) == call' = [op |-> op, args |-> args, ret |-> ret]

\* A builder method panics: the call never returns and nothing is built after
\* it. The variables keep what the builder held when it panicked.
Panic(msg, op, args) ==
    /\ stage' = "panicked"
    /\ panic' = Some(msg)
    /\ Called(op, args, Panicked)
    /\ UNCHANGED <<schemas, schemaArcs, fieldArcs, schema, field, section>>

----------------------------------------------------------------------------
(* Builder<Schemas, ()> *)

Init ==
    /\ stage = "empty"
    /\ schemas = EmptyMap
    /\ schemaArcs = << >>
    /\ fieldArcs = << >>
    /\ schema = DefaultSchema
    /\ field = DefaultField
    /\ section = DefaultSection
    /\ panic = None
    /\ call = [op |-> "builder", args |-> << >>, ret |-> Ok]

NewSchema(id) ==
    /\ stage = "empty"
    /\ stage' = "schema"
    /\ schema' = [DefaultSchema EXCEPT
                    !.id = id,
                    !.list.actions = <<"Create", "Search", "Delete", "Modify">>,
                    !.list.page_size = 10,
                    !.form.actions = <<"Save", "Cancel">>]
    /\ Called("new_schema", <<id>>, Ok)
    /\ UNCHANGED <<schemas, schemaArcs, fieldArcs, field, section, panic>>

BuilderBuild ==
    /\ stage = "empty"
    /\ stage' = "built"
    /\ Called("schemas.build", << >>, Ok)
    /\ UNCHANGED <<schemas, schemaArcs, fieldArcs, schema, field, section, panic>>

----------------------------------------------------------------------------
(* Builder<Schemas, Schema> *)

SchemaNewField(id) ==
    /\ stage = "schema"
    /\ stage' = "field"
    /\ field' = [DefaultField EXCEPT !.id = id, !.typ_ = <<"Input">>]
    /\ Called("schema.new_field", <<id>>, Ok)
    /\ UNCHANGED <<schemas, schemaArcs, fieldArcs, schema, section, panic>>

NewFormSection ==
    /\ stage = "schema"
    /\ stage' = "section"
    /\ section' = DefaultSection
    /\ Called("new_form_section", << >>, Ok)
    /\ UNCHANGED <<schemas, schemaArcs, fieldArcs, schema, field, panic>>

\* Not the code: a prefix() that sets Entry whatever the type is. C6 tells it
\* from prefix().
PrefixFromAny(prefix) ==
    /\ stage = "schema"
    /\ schema' = [schema EXCEPT !.typ = <<"Entry", prefix>>]
    /\ Called("prefix", <<prefix>>, Ok)
    /\ UNCHANGED <<stage, schemas, schemaArcs, fieldArcs, field, section, panic>>

Prefix(prefix) ==
    /\ stage = "schema"
    /\ IF schema.typ[1] = "List"
       THEN /\ schema' = [schema EXCEPT !.typ = <<"Entry", prefix>>]
            /\ Called("prefix", <<prefix>>, Ok)
            /\ UNCHANGED <<stage, schemas, schemaArcs, fieldArcs, field, section, panic>>
       ELSE Panic(NotList, "prefix", <<prefix>>)

Suffix(suffix) ==
    /\ stage = "schema"
    /\ IF schema.typ[1] = "Entry"
       THEN /\ schema' = [schema EXCEPT !.typ = <<"Record", schema.typ[2], suffix>>]
            /\ Called("suffix", <<suffix>>, Ok)
            /\ UNCHANGED <<stage, schemas, schemaArcs, fieldArcs, field, section, panic>>
       ELSE Panic(NotRecord, "suffix", <<suffix>>)

\* Not the code: a list_field() that skips an unregistered id. C5 tells it from
\* list_field().
ListFieldSkipsMissing(id) ==
    /\ stage = "schema"
    /\ schema' = IF id \in DOMAIN schema.fields
                 THEN [schema EXCEPT !.list.fields = Append(@, schema.fields[id])]
                 ELSE schema
    /\ Called("list_field", <<id>>, Ok)
    /\ UNCHANGED <<stage, schemas, schemaArcs, fieldArcs, field, section, panic>>

ListField(id) ==
    /\ stage = "schema"
    /\ IF id \in DOMAIN schema.fields
       THEN /\ schema' = [schema EXCEPT !.list.fields = Append(@, schema.fields[id])]
            /\ Called("list_field", <<id>>, Ok)
            /\ UNCHANGED <<stage, schemas, schemaArcs, fieldArcs, field, section, panic>>
       ELSE Panic(FieldNotFound(id, schema.id), "list_field", <<id>>)

ListTitle(title) ==
    /\ stage = "schema"
    /\ schema' = [schema EXCEPT !.list.title = title]
    /\ Called("list_title", <<title>>, Ok)
    /\ UNCHANGED <<stage, schemas, schemaArcs, fieldArcs, field, section, panic>>

ListSubtitle(subtitle) ==
    /\ stage = "schema"
    /\ schema' = [schema EXCEPT !.list.subtitle = subtitle]
    /\ Called("list_subtitle", <<subtitle>>, Ok)
    /\ UNCHANGED <<stage, schemas, schemaArcs, fieldArcs, field, section, panic>>

Names(singular, plural) ==
    /\ stage = "schema"
    /\ schema' = [schema EXCEPT !.name_singular = singular, !.name_plural = plural]
    /\ Called("names", <<singular, plural>>, Ok)
    /\ UNCHANGED <<stage, schemas, schemaArcs, fieldArcs, field, section, panic>>

\* Builder<Schemas, Schema>::build
SchemaBuild ==
    /\ stage = "schema"
    /\ stage' = "empty"
    /\ schemaArcs' = Append(schemaArcs, schema)
    /\ schemas' = MapInsert(schemas, schema.id, Len(schemaArcs) + 1)
    /\ schema' = DefaultSchema
    /\ Called("schema.build", << >>, Ok)
    /\ UNCHANGED <<fieldArcs, field, section, panic>>

----------------------------------------------------------------------------
(* Builder<(Schemas, Schema), Field> *)

FieldStays == UNCHANGED <<stage, schemas, schemaArcs, fieldArcs, schema, section, panic>>

\* fn field(&self, id): the Arc registered under id in the schema in progress
BuilderField(id) == MapGet(schema.fields, id)

\* Not the code: a schema lookup that also finds the schema in progress. C8
\* tells it from fn schema.
BuilderSchemaOrInProgress(id) ==
    IF id \in DOMAIN schemas
    THEN Some(schemas[id])
    ELSE IF id = schema.id THEN Some(Len(schemaArcs) + 1) ELSE None

\* fn schema(&self, id): the Arc registered under id in the registry
BuilderSchema(id) == MapGet(schemas, id)

\* The Eval the builder makes of a field reference, a list of values and a condition
MkEval(fieldArc, values, condition) ==
    [field |-> fieldArc, values |-> values, condition |-> condition]

\* Value::push_if_matches_eq
PushIfMatchesEq(value, fieldArc, contains, then) ==
    [value EXCEPT !.if_thens =
        Append(@, [eval |-> MkEval(fieldArc, contains, "MatchAny"), value |-> then])]

\* Value::push_else
PushElse(value, then) == [value EXCEPT !.default = Some(then)]

Label(label) ==
    /\ stage = "field"
    /\ field' = [field EXCEPT !.label_column = label, !.label_form = label]
    /\ Called("label", <<label>>, Ok)
    /\ FieldStays

Help(help) ==
    /\ stage = "field"
    /\ field' = [field EXCEPT !.help = Some(help)]
    /\ Called("help", <<help>>, Ok)
    /\ FieldStays

Readonly ==
    /\ stage = "field"
    /\ field' = [field EXCEPT !.readonly = TRUE]
    /\ Called("readonly", << >>, Ok)
    /\ FieldStays

\* typ: a Select(Dynamic) names a schema and a field by id, and both are looked
\* up, the schema first; every other kind is taken as it is.
Typ(typ_) ==
    /\ stage = "field"
    /\ IF typ_[1] = "Select" /\ typ_[2][1] = "Dynamic"
       THEN LET s == BuilderSchema(typ_[2][2])
                f == BuilderField(typ_[2][3])
            IN  IF s = None
                THEN Panic(SchemaNotFoundExpect, "typ", <<typ_>>)
                ELSE IF f = None
                THEN Panic(FieldNotFound(typ_[2][3], schema.id), "typ", <<typ_>>)
                ELSE /\ field' = [field EXCEPT
                                    !.typ_ = <<"Select", <<"Dynamic", s[1], f[1]>>>>]
                     /\ Called("typ", <<typ_>>, Ok)
                     /\ FieldStays
       ELSE /\ field' = [field EXCEPT !.typ_ = typ_]
            /\ Called("typ", <<typ_>>, Ok)
            /\ FieldStays

InputCheckIfEq(id, conditions, transformers, validators) ==
    /\ stage = "field"
    /\ LET f == BuilderField(id)
           args == <<id, conditions, transformers, validators>>
       IN  IF f = None
           THEN Panic(FieldNotFound(id, schema.id), "input_check_if_eq", args)
           ELSE /\ field' = [field EXCEPT !.checks =
                                PushIfMatchesEq(@, f[1], conditions,
                                                InputCheckNew(transformers, validators))]
                /\ Called("input_check_if_eq", args, Ok)
                /\ FieldStays

InputCheck(transformers, validators) ==
    /\ stage = "field"
    /\ field' = [field EXCEPT !.checks =
                    PushElse(@, InputCheckNew(transformers, validators))]
    /\ Called("input_check", <<transformers, validators>>, Ok)
    /\ FieldStays

Placeholder(placeholder) ==
    /\ stage = "field"
    /\ field' = [field EXCEPT !.placeholder = PushElse(@, placeholder)]
    /\ Called("placeholder", <<placeholder>>, Ok)
    /\ FieldStays

\* Not the code: a default() that makes the fallback the whole Value, dropping
\* the rules set before it. C15 tells it from default().
DefaultDropsRules(default) ==
    /\ stage = "field"
    /\ field' = [field EXCEPT !.default = PushElse(DefaultValue, default),
                              !.placeholder = PushElse(@, default)]
    /\ Called("default", <<default>>, Ok)
    /\ FieldStays

Default(default) ==
    /\ stage = "field"
    /\ field' = [field EXCEPT !.default = PushElse(@, default),
                              !.placeholder = PushElse(@, default)]
    /\ Called("default", <<default>>, Ok)
    /\ FieldStays

\* Not the code: a default_if_eq that, as default() does for the fallback, puts
\* its rule into the placeholder as well. C25 tells it from default_if_eq.
DefaultIfEqSetsPlaceholder(id, conditions, value) ==
    /\ stage = "field"
    /\ LET f == BuilderField(id)
           args == <<id, conditions, value>>
       IN  IF f = None
           THEN Panic(FieldNotFound(id, schema.id), "default_if_eq", args)
           ELSE /\ field' = [field EXCEPT
                                !.default = PushIfMatchesEq(@, f[1], conditions, value),
                                !.placeholder = PushIfMatchesEq(@, f[1], conditions, value)]
                /\ Called("default_if_eq", args, Ok)
                /\ FieldStays

DefaultIfEq(id, conditions, value) ==
    /\ stage = "field"
    /\ LET f == BuilderField(id)
           args == <<id, conditions, value>>
       IN  IF f = None
           THEN Panic(FieldNotFound(id, schema.id), "default_if_eq", args)
           ELSE /\ field' = [field EXCEPT !.default =
                                PushIfMatchesEq(@, f[1], conditions, value)]
                /\ Called("default_if_eq", args, Ok)
                /\ FieldStays

\* display_if; display_if_eq and display_if_ne are this with MatchAny and MatchNone
DisplayIf(id, values, condition) ==
    /\ stage = "field"
    /\ LET f == BuilderField(id)
           args == <<id, values, condition>>
       IN  IF f = None
           THEN Panic(FieldNotFound(id, schema.id), "display_if", args)
           ELSE /\ field' = [field EXCEPT !.display =
                                Append(@, MkEval(f[1], values, condition))]
                /\ Called("display_if", args, Ok)
                /\ FieldStays

\* The two templates of Builder<Schemas, Schema>, which start a field and make
\* the calls of the Field stage on it.

\* new_id_field: Field { id: "_id", .. } then label("Id"), typ(Type::Input),
\* input_check([Trim, Lowercase], [Required, IsId]) and readonly()
NewIdField ==
    /\ stage = "schema"
    /\ stage' = "field"
    /\ field' = [DefaultField EXCEPT
                    !.id = "_id",
                    !.label_column = "Id",
                    !.label_form = "Id",
                    !.typ_ = <<"Input">>,
                    !.checks = PushElse(@, InputCheckNew(<<"Trim", "Lowercase">>,
                                                         <<"Required", "IsId">>)),
                    !.readonly = TRUE]
    /\ Called("new_id_field", << >>, Ok)
    /\ UNCHANGED <<schemas, schemaArcs, fieldArcs, schema, section, panic>>

\* new_value_field: Field { id: "_value", .. } then label("Value"),
\* typ(Type::Input) and input_check([Trim], [])
NewValueField ==
    /\ stage = "schema"
    /\ stage' = "field"
    /\ field' = [DefaultField EXCEPT
                    !.id = "_value",
                    !.label_column = "Value",
                    !.label_form = "Value",
                    !.typ_ = <<"Input">>,
                    !.checks = PushElse(@, InputCheckNew(<<"Trim">>, << >>))]
    /\ Called("new_value_field", << >>, Ok)
    /\ UNCHANGED <<schemas, schemaArcs, fieldArcs, schema, section, panic>>

\* Builder<(Schemas, Schema), Field>::build
FieldBuild ==
    /\ stage = "field"
    /\ stage' = "schema"
    /\ fieldArcs' = Append(fieldArcs, field)
    /\ schema' = [schema EXCEPT !.fields = MapInsert(@, field.id, Len(fieldArcs) + 1)]
    /\ field' = DefaultField
    /\ Called("field.build", << >>, Ok)
    /\ UNCHANGED <<schemas, schemaArcs, section, panic>>

\* Not the code: a new_field that starts the next field as a copy of the one in
\* progress under the new id. C24 tells it from new_field.
FieldNewFieldCopiesAll(id) ==
    /\ stage = "field"
    /\ fieldArcs' = Append(fieldArcs, field)
    /\ schema' = [schema EXCEPT !.fields = MapInsert(@, field.id, Len(fieldArcs) + 1)]
    /\ field' = [field EXCEPT !.id = id]
    /\ Called("field.new_field", <<id>>, Ok)
    /\ UNCHANGED <<stage, schemas, schemaArcs, section, panic>>

\* Builder<(Schemas, Schema), Field>::new_field
FieldNewField(id) ==
    /\ stage = "field"
    /\ fieldArcs' = Append(fieldArcs, field)
    /\ schema' = [schema EXCEPT !.fields = MapInsert(@, field.id, Len(fieldArcs) + 1)]
    /\ field' = [DefaultField EXCEPT !.id = id, !.typ_ = field.typ_,
                                     !.display = field.display,
                                     !.checks = field.checks]
    /\ Called("field.new_field", <<id>>, Ok)
    /\ UNCHANGED <<stage, schemas, schemaArcs, section, panic>>

----------------------------------------------------------------------------
(* Builder<(Schemas, Schema), Section> *)

SectionStays == UNCHANGED <<stage, schemas, schemaArcs, fieldArcs, schema, field, panic>>

Title(title) ==
    /\ stage = "section"
    /\ section' = [section EXCEPT !.title = Some(title)]
    /\ Called("title", <<title>>, Ok)
    /\ SectionStays

SectionField(id) ==
    /\ stage = "section"
    /\ IF id \in DOMAIN schema.fields
       THEN /\ section' = [section EXCEPT !.fields = Append(@, schema.fields[id])]
            /\ Called("section.field", <<id>>, Ok)
            /\ SectionStays
       ELSE Panic(FieldNotFound(id, schema.id), "section.field", <<id>>)

SectionDisplayIf(id, values, condition) ==
    /\ stage = "section"
    /\ LET args == <<id, values, condition>>
       IN  IF id \in DOMAIN schema.fields
           THEN /\ section' = [section EXCEPT !.display =
                                  Append(@, MkEval(schema.fields[id], values, condition))]
                /\ Called("section.display_if", args, Ok)
                /\ SectionStays
           ELSE Panic(FieldNotFound(id, schema.id), "section.display_if", args)

\* Not the code: a section build() that puts the section first in the form. C12
\* tells it from build().
SectionBuildFirst ==
    /\ stage = "section"
    /\ stage' = "schema"
    /\ schema' = [schema EXCEPT !.form.sections = <<section>> \o @]
    /\ section' = DefaultSection
    /\ Called("section.build", << >>, Ok)
    /\ UNCHANGED <<schemas, schemaArcs, fieldArcs, field, panic>>

\* Builder<(Schemas, Schema), Section>::build
SectionBuild ==
    /\ stage = "section"
    /\ stage' = "schema"
    /\ schema' = [schema EXCEPT !.form.sections = Append(@, section)]
    /\ section' = DefaultSection
    /\ Called("section.build", << >>, Ok)
    /\ UNCHANGED <<schemas, schemaArcs, fieldArcs, field, panic>>

----------------------------------------------------------------------------
(* The finished registry: Schemas, and the read-only calls on what it holds *)

ReadStays == UNCHANGED <<stage, schemas, schemaArcs, fieldArcs, schema, field, section, panic>>

\* Not the code: a get that returns the latest schema for an unknown id. C7
\* tells it from Schemas::get.
GetOrLatest(id) ==
    /\ stage = "built"
    /\ IF id \in DOMAIN schemas
       THEN /\ Called("get", <<id>>, Returned(schemas[id]))
            /\ ReadStays
       ELSE IF schemaArcs # << >>
       THEN /\ Called("get", <<id>>, Returned(Len(schemaArcs)))
            /\ ReadStays
       ELSE Panic(SchemaNotFound(id), "get", <<id>>)

\* Not the code: a get that registers an empty schema under an unknown id and
\* returns it. C13 tells it from Schemas::get.
GetOrInsert(id) ==
    /\ stage = "built"
    /\ IF id \in DOMAIN schemas
       THEN /\ Called("get", <<id>>, Returned(schemas[id]))
            /\ ReadStays
       ELSE /\ schemaArcs' = Append(schemaArcs, [DefaultSchema EXCEPT !.id = id])
            /\ schemas' = MapInsert(schemas, id, Len(schemaArcs) + 1)
            /\ Called("get", <<id>>, Returned(Len(schemaArcs) + 1))
            /\ UNCHANGED <<stage, fieldArcs, schema, field, section, panic>>

\* Schemas::get: the Arc registered under id, or a panic
Get(id) ==
    /\ stage = "built"
    /\ IF id \in DOMAIN schemas
       THEN /\ Called("get", <<id>>, Returned(schemas[id]))
            /\ ReadStays
       ELSE Panic(SchemaNotFound(id), "get", <<id>>)

\* The field registered under fid in the schema registered under sid
RegisteredField(sid, fid) == fieldArcs[schemaArcs[schemas[sid]].fields[fid]]

HasField(sid, fid) ==
    /\ sid \in DOMAIN schemas
    /\ fid \in DOMAIN schemaArcs[schemas[sid]].fields

\* A read-only call is made under every value source of a bounded set at once:
\* what it returns is recorded as the table from value source to result.

\* Eval::eval on the i-th display eval of a registered field
CallEvalEval(sid, fid, i, sources) ==
    /\ stage = "built"
    /\ HasField(sid, fid)
    /\ i \in 1..Len(RegisteredField(sid, fid).display)
    /\ Called("Eval::eval", <<sid, fid, i>>,
              Returned([v \in sources |-> EvalEval(RegisteredField(sid, fid).display[i], v)]))
    /\ ReadStays

\* Field::display
CallFieldDisplay(sid, fid, sources) ==
    /\ stage = "built"
    /\ HasField(sid, fid)
    /\ Called("Field::display", <<sid, fid>>,
              Returned([v \in sources |-> Display(RegisteredField(sid, fid).display, v)]))
    /\ ReadStays

\* Section::display
CallSectionDisplay(sid, i, sources) ==
    /\ stage = "built"
    /\ sid \in DOMAIN schemas
    /\ i \in 1..Len(schemaArcs[schemas[sid]].form.sections)
    /\ Called("Section::display", <<sid, i>>,
              Returned([v \in sources |->
                  Display(schemaArcs[schemas[sid]].form.sections[i].display, v)]))
    /\ ReadStays

\* Field::default: Value::eval on the field's default
CallFieldDefault(sid, fid, sources) ==
    /\ stage = "built"
    /\ HasField(sid, fid)
    /\ Called("Field::default", <<sid, fid>>,
              Returned([v \in sources |-> ValueEval(RegisteredField(sid, fid).default, v)]))
    /\ ReadStays

\* Field::input_check: Value::eval on the field's checks
CallFieldInputCheck(sid, fid, sources) ==
    /\ stage = "built"
    /\ HasField(sid, fid)
    /\ Called("Field::input_check", <<sid, fid>>,
              Returned([v \in sources |-> ValueEval(RegisteredField(sid, fid).checks, v)]))
    /\ ReadStays

\* Field::value: the stored string, or the empty string
FieldValue(f, settings) ==
    LET v == SettingsGet(settings, f.id)
    IN  IF v = None THEN "" ELSE v[1]

RECURSIVE FindMapFrom(_, _, _)
\* items.iter().find_map(..) from pair i on: the label of the first pair whose
\* key is id
FindMapFrom(items, i, id) ==
    IF i > Len(items)
    THEN None
    ELSE IF items[i][1] = id
         THEN Some(items[i][2])
         ELSE FindMapFrom(items, i + 1, id)

\* Not the code: a Source::display that gives the key as the label when it finds
\* none. C17 tells it from Source::display.
SourceDisplayOrKey(source, id, settings) ==
    LET label == IF source[1] = "Static"
                 THEN FindMapFrom(source[2], 1, id)
                 ELSE SettingsGet(settings, fieldArcs[source[3]].id)
    IN  IF label = None THEN Some(id) ELSE label

\* Source::display
SourceDisplay(source, id, settings) ==
    IF source[1] = "Static"
    THEN FindMapFrom(source[2], 1, id)
    ELSE SettingsGet(settings, fieldArcs[source[3]].id)

\* Not the code: a label that is the current value whatever the kind is. C16
\* tells it from Field::label.
FieldLabelIsValue(f, settings) == FieldValue(f, settings)

\* Field::label
FieldLabel(f, settings) ==
    LET value == FieldValue(f, settings)
    IN  IF f.typ_[1] = "Select"
        THEN LET label == SourceDisplay(f.typ_[2], value, settings)
             IN  IF label = None THEN value ELSE label[1]
        ELSE value

\* Field::placeholder
FieldPlaceholder(f, settings) == ValueEval(f.placeholder, settings)

\* Field::input_check
FieldInputCheck(f, settings) == ValueEval(f.checks, settings)

\* Not the code: an is_required that looks at the checks only. C14 tells it
\* from Field::is_required.
FieldIsRequiredByChecks(f, settings) ==
    LET c == FieldInputCheck(f, settings)
    IN  IF c = None
        THEN FALSE
        ELSE \E i \in 1..Len(c[1].validators) : c[1].validators[i] = "Required"

\* Field::is_required
FieldIsRequired(f, settings) ==
    \/ f.typ_[1] \in {"Checkbox", "Select"}
    \/ LET c == FieldInputCheck(f, settings)
       IN  IF c = None
           THEN FALSE
           ELSE \E i \in 1..Len(c[1].validators) : c[1].validators[i] = "Required"

CallFieldValue(sid, fid, sources) ==
    /\ stage = "built"
    /\ HasField(sid, fid)
    /\ Called("Field::value", <<sid, fid>>,
              Returned([v \in sources |-> FieldValue(RegisteredField(sid, fid), v)]))
    /\ ReadStays

CallFieldLabel(sid, fid, sources) ==
    /\ stage = "built"
    /\ HasField(sid, fid)
    /\ Called("Field::label", <<sid, fid>>,
              Returned([v \in sources |-> FieldLabel(RegisteredField(sid, fid), v)]))
    /\ ReadStays

\* Source::display on the source of a registered Select field, for key id
CallSourceDisplay(sid, fid, id, sources) ==
    /\ stage = "built"
    /\ HasField(sid, fid)
    /\ RegisteredField(sid, fid).typ_[1] = "Select"
    /\ Called("Source::display", <<sid, fid, id>>,
              Returned([v \in sources |->
                  SourceDisplay(RegisteredField(sid, fid).typ_[2], id, v)]))
    /\ ReadStays

CallFieldPlaceholder(sid, fid, sources) ==
    /\ stage = "built"
    /\ HasField(sid, fid)
    /\ Called("Field::placeholder", <<sid, fid>>,
              Returned([v \in sources |-> FieldPlaceholder(RegisteredField(sid, fid), v)]))
    /\ ReadStays

CallFieldIsRequired(sid, fid, sources) ==
    /\ stage = "built"
    /\ HasField(sid, fid)
    /\ Called("Field::is_required", <<sid, fid>>,
              Returned([v \in sources |-> FieldIsRequired(RegisteredField(sid, fid), v)]))
    /\ ReadStays

\* panic!("Schema type is not Record or Entry.") in unwrap_prefix
NotRecordOrEntry ==
    [text |-> "Schema type is not Record or Entry.", field |-> None, schema |-> None]

\* Not the code: an unwrap_prefix that returns "" for a List schema. C18 tells
\* it from Schema::unwrap_prefix.
CallUnwrapPrefixOrEmpty(sid) ==
    /\ stage = "built"
    /\ sid \in DOMAIN schemas
    /\ LET typ == schemaArcs[schemas[sid]].typ
       IN  Called("unwrap_prefix", <<sid>>,
                  Returned(IF typ[1] \in {"Record", "Entry"} THEN typ[2] ELSE ""))
    /\ ReadStays

\* Schema::unwrap_prefix on the schema registered under sid
CallUnwrapPrefix(sid) ==
    /\ stage = "built"
    /\ sid \in DOMAIN schemas
    /\ LET typ == schemaArcs[schemas[sid]].typ
       IN  IF typ[1] \in {"Record", "Entry"}
           THEN /\ Called("unwrap_prefix", <<sid>>, Returned(typ[2]))
                /\ ReadStays
           ELSE Panic(NotRecordOrEntry, "unwrap_prefix", <<sid>>)

\* Schema::try_unwrap_suffix on the schema registered under sid
CallTryUnwrapSuffix(sid) ==
    /\ stage = "built"
    /\ sid \in DOMAIN schemas
    /\ LET typ == schemaArcs[schemas[sid]].typ
       IN  Called("try_unwrap_suffix", <<sid>>,
                  Returned(IF typ[1] = "Record" THEN Some(typ[3]) ELSE None))
    /\ ReadStays

\* Not the code: a form made as an update of an existing record. C20 tells it
\* from the From impl.
FormDataForUpdate(schemaArc) ==
    [values |-> EmptyMap, errors |-> EmptyMap, schema |-> schemaArc, is_update |-> TRUE]

\* impl From<Arc<Schema>> for FormData
FormDataFrom(schemaArc) ==
    [values |-> EmptyMap, errors |-> EmptyMap, schema |-> schemaArc, is_update |-> FALSE]

\* Schemas::build_form: self.get(id).into()
BuildForm(id) ==
    /\ stage = "built"
    /\ IF id \in DOMAIN schemas
       THEN /\ Called("build_form", <<id>>, Returned(FormDataFrom(schemas[id])))
            /\ ReadStays
       ELSE Panic(SchemaNotFound(id), "build_form", <<id>>)

----------------------------------------------------------------------------
(* Spec: the registry under construction. Schemas and their fields are     *)
(* started, typed, built and replaced; the finished registry is queried.   *)

MaxSchemaArcs == 2

MaxFieldArcs == 2

SchemaIds == {"s", "t"}

FieldIds == {"a", "b"}

Prefixes == {"p", "q"}

\* The most attributes (references to fields, and fallbacks) set in all that is
\* built and in progress
MaxAttrs == 2

MaxSections == 1

Conditions == {"MatchAny", "MatchNone"}

\* The rules of a Value and its fallback (an Option: 0 or 1)
ValueSize(v) == Len(v.if_thens) + Len(v.default)

FieldRefs(f) == Len(f.display) + ValueSize(f.checks) + ValueSize(f.default)

RECURSIVE SumFieldRefs(_)
SumFieldRefs(seq) ==
    IF seq = << >> THEN 0 ELSE FieldRefs(Head(seq)) + SumFieldRefs(Tail(seq))

SectionRefs(sec) == Len(sec.fields) + Len(sec.display)

RECURSIVE SumSectionRefs(_)
SumSectionRefs(seq) ==
    IF seq = << >> THEN 0 ELSE SectionRefs(Head(seq)) + SumSectionRefs(Tail(seq))

SchemaRefs(sc) == Len(sc.list.fields) + SumSectionRefs(sc.form.sections)

RECURSIVE SumSchemaRefs(_)
SumSchemaRefs(seq) ==
    IF seq = << >> THEN 0 ELSE SchemaRefs(Head(seq)) + SumSchemaRefs(Tail(seq))

AttrsMade ==
    SumFieldRefs(fieldArcs) + FieldRefs(field) + SectionRefs(section)
    + SumSchemaRefs(schemaArcs) + SchemaRefs(schema)

\* The kinds given to typ: plain kinds, a static table, and every Dynamic source
Types ==
    {<<"Input">>, <<"Checkbox">>, <<"Select", <<"Static", <<<<"k", "v">>>>>>>>}
    \cup {<<"Select", <<"Dynamic", sid, fid>>>> : sid \in SchemaIds, fid \in FieldIds}

Next ==
    \/ \E id \in SchemaIds : Len(schemaArcs) < MaxSchemaArcs /\ NewSchema(id)
    \/ BuilderBuild
    \/ \E id \in FieldIds : Len(fieldArcs) < MaxFieldArcs /\ SchemaNewField(id)
    \/ \E prefix \in Prefixes : Prefix(prefix)
    \/ Suffix("x")
    \/ SchemaBuild
    \/ \E t \in Types : Typ(t)
    \/ FieldBuild
    \/ \E id \in FieldIds : Len(fieldArcs) + 1 < MaxFieldArcs /\ FieldNewField(id)
    \/ \E id \in SchemaIds : Get(id)

Spec == Init /\ [][Next]_vars

----------------------------------------------------------------------------
(* SpecRefs: every builder call that refers to a field by its id, in two   *)
(* schemas built one after the other.                                      *)

NextRefs ==
    \/ \E id \in SchemaIds : Len(schemaArcs) < MaxSchemaArcs /\ NewSchema(id)
    \/ BuilderBuild
    \/ \E id \in FieldIds : Len(fieldArcs) < MaxFieldArcs /\ SchemaNewField(id)
    \/ Len(schema.form.sections) < MaxSections /\ NewFormSection
    \/ AttrsMade < MaxAttrs /\ \E id \in FieldIds : ListField(id)
    \/ SchemaBuild
    \/ AttrsMade < MaxAttrs
       /\ \E id \in FieldIds : InputCheckIfEq(id, <<"on">>, <<"Trim">>, <<"Required">>)
    \/ AttrsMade < MaxAttrs /\ \E id \in FieldIds : DefaultIfEq(id, <<"on">>, "1s")
    \/ AttrsMade < MaxAttrs
       /\ \E id \in FieldIds, c \in Conditions : DisplayIf(id, <<"on">>, c)
    \/ FieldBuild
    \/ AttrsMade < MaxAttrs /\ \E id \in FieldIds : SectionField(id)
    \/ AttrsMade < MaxAttrs
       /\ \E id \in FieldIds, c \in Conditions : SectionDisplayIf(id, <<"on">>, c)
    \/ SectionBuild

SpecRefs == Init /\ [][NextRefs]_vars

----------------------------------------------------------------------------
(* SpecEval: fields and sections that refer to other fields (list view,    *)
(* sections, display conditions, conditional defaults and checks) are      *)
(* built, and the finished registry resolves them against a value source.  *)

\* One schema is built, once
EvalSchemaIds == {"s"}

EvalFieldIds == {"status", "reason"}

ValueLists == {<< >>, <<"off">>, <<"on", "off">>}

Defaults == {"1s", "30s"}

Checks == {InputCheckNew(<<"Trim">>, <<"Required">>), InputCheckNew(<<"Trim">>, << >>)}

\* The value sources: each field id absent, "on" or "off"
SettingsSet ==
    UNION {[keys -> {"on", "off"}] : keys \in SUBSET EvalFieldIds}

NextEval ==
    \/ schemaArcs = << >> /\ \E id \in EvalSchemaIds : NewSchema(id)
    \/ BuilderBuild
    \/ \E id \in EvalFieldIds : Len(fieldArcs) < MaxFieldArcs /\ SchemaNewField(id)
    \/ Len(schema.form.sections) < MaxSections /\ NewFormSection
    \/ AttrsMade < MaxAttrs /\ \E id \in EvalFieldIds : ListField(id)
    \/ SchemaBuild
    \/ AttrsMade < MaxAttrs
       /\ \E id \in EvalFieldIds, vs \in ValueLists, c \in Checks :
            InputCheckIfEq(id, vs, c.transformers, c.validators)
    \/ AttrsMade < MaxAttrs /\ \E c \in Checks : InputCheck(c.transformers, c.validators)
    \/ AttrsMade < MaxAttrs
       /\ \E id \in EvalFieldIds, vs \in ValueLists, d \in Defaults : DefaultIfEq(id, vs, d)
    \/ AttrsMade < MaxAttrs /\ \E d \in Defaults : Default(d)
    \/ AttrsMade < MaxAttrs
       /\ \E id \in EvalFieldIds, vs \in ValueLists, c \in Conditions : DisplayIf(id, vs, c)
    \/ FieldBuild
    \/ AttrsMade < MaxAttrs /\ \E id \in EvalFieldIds : SectionField(id)
    \/ AttrsMade < MaxAttrs
       /\ \E id \in EvalFieldIds, vs \in ValueLists, c \in Conditions :
            SectionDisplayIf(id, vs, c)
    \/ SectionBuild
    \/ \E sid \in EvalSchemaIds, fid \in EvalFieldIds, i \in 1..MaxAttrs :
         CallEvalEval(sid, fid, i, SettingsSet)
    \/ \E sid \in EvalSchemaIds, fid \in EvalFieldIds : CallFieldDisplay(sid, fid, SettingsSet)
    \/ \E sid \in EvalSchemaIds, i \in 1..MaxSections : CallSectionDisplay(sid, i, SettingsSet)
    \/ \E sid \in EvalSchemaIds, fid \in EvalFieldIds : CallFieldDefault(sid, fid, SettingsSet)
    \/ \E sid \in EvalSchemaIds, fid \in EvalFieldIds :
         CallFieldInputCheck(sid, fid, SettingsSet)

SpecEval == Init /\ [][NextEval]_vars

----------------------------------------------------------------------------
(* SpecBuild: fields, list-view entries and titled sections are put into   *)
(* schemas and the schemas into the registry.                              *)

MaxFormSections == 2

Titles == {"General", "Advanced"}

NextBuild ==
    \/ \E id \in SchemaIds : Len(schemaArcs) < MaxSchemaArcs /\ NewSchema(id)
    \/ BuilderBuild
    \/ \E id \in FieldIds : Len(fieldArcs) < MaxFieldArcs /\ SchemaNewField(id)
    \/ FieldBuild
    \/ AttrsMade < MaxAttrs /\ \E id \in FieldIds : ListField(id)
    \/ Len(schema.form.sections) < MaxFormSections /\ NewFormSection
    \/ section.title = None /\ \E title \in Titles : Title(title)
    \/ AttrsMade < MaxAttrs /\ \E id \in FieldIds : SectionField(id)
    \/ SectionBuild
    \/ SchemaBuild

SpecBuild == Init /\ [][NextBuild]_vars

----------------------------------------------------------------------------
(* SpecRead: schemas of every type with fields of every kind are built,    *)
(* and the finished registry is read through every read-only call.         *)

\* The key of the static table of Types, and a string that is no key of it
Keys == {"k", "z"}

\* The value sources: each field id absent, "k" or "z"
ReadSettings ==
    UNION {[keys -> Keys] : keys \in SUBSET FieldIds}

\* 1 for a field whose kind was set to a Checkbox or a Select
KindSet(f) == IF f.typ_[1] \in {"Checkbox", "Select"} THEN 1 ELSE 0

RECURSIVE SumFieldSettings(_)
SumFieldSettings(seq) ==
    IF seq = << >>
    THEN 0
    ELSE KindSet(Head(seq)) + ValueSize(Head(seq).placeholder)
         + SumFieldSettings(Tail(seq))

\* 0 for a List schema, 1 after prefix(), 2 after suffix()
TypSet(sc) == Len(sc.typ) - 1

RECURSIVE SumTypSet(_)
SumTypSet(seq) ==
    IF seq = << >> THEN 0 ELSE TypSet(Head(seq)) + SumTypSet(Tail(seq))

\* The settings made in all that is built and in progress: the attributes, the
\* kinds and placeholders of fields, the prefixes and suffixes of schemas
SettingsMade ==
    AttrsMade + SumFieldSettings(fieldArcs) + KindSet(field)
    + ValueSize(field.placeholder) + SumTypSet(schemaArcs) + TypSet(schema)

NextRead ==
    \/ \E id \in SchemaIds : Len(schemaArcs) < MaxSchemaArcs /\ NewSchema(id)
    \/ BuilderBuild
    \/ \E id \in FieldIds : Len(fieldArcs) < MaxFieldArcs /\ SchemaNewField(id)
    \/ SettingsMade < MaxAttrs /\ Prefix("p")
    \/ SettingsMade < MaxAttrs /\ Suffix("x")
    \/ SchemaBuild
    \/ SettingsMade < MaxAttrs /\ field.typ_ = <<"Input">> /\ \E t \in Types : Typ(t)
    \/ SettingsMade < MaxAttrs
       /\ \E id \in FieldIds, c \in Checks :
            InputCheckIfEq(id, <<"k">>, c.transformers, c.validators)
    \/ SettingsMade < MaxAttrs /\ \E c \in Checks : InputCheck(c.transformers, c.validators)
    \/ SettingsMade + 1 < MaxAttrs /\ Default("1s")
    \/ SettingsMade < MaxAttrs /\ Placeholder("hint")
    \/ FieldBuild
    \/ \E id \in SchemaIds : Get(id)
    \/ \E id \in SchemaIds : BuildForm(id)
    \/ \E sid \in SchemaIds : CallUnwrapPrefix(sid)
    \/ \E sid \in SchemaIds : CallTryUnwrapSuffix(sid)
    \/ \E sid \in SchemaIds, fid \in FieldIds : CallFieldValue(sid, fid, ReadSettings)
    \/ \E sid \in SchemaIds, fid \in FieldIds : CallFieldLabel(sid, fid, ReadSettings)
    \/ \E sid \in SchemaIds, fid \in FieldIds, id \in Keys :
         CallSourceDisplay(sid, fid, id, ReadSettings)
    \/ \E sid \in SchemaIds, fid \in FieldIds : CallFieldDisplay(sid, fid, ReadSettings)
    \/ \E sid \in SchemaIds, fid \in FieldIds : CallFieldDefault(sid, fid, ReadSettings)
    \/ \E sid \in SchemaIds, fid \in FieldIds : CallFieldPlaceholder(sid, fid, ReadSettings)
    \/ \E sid \in SchemaIds, fid \in FieldIds : CallFieldInputCheck(sid, fid, ReadSettings)
    \/ \E sid \in SchemaIds, fid \in FieldIds : CallFieldIsRequired(sid, fid, ReadSettings)

SpecRead == Init /\ [][NextRead]_vars

----------------------------------------------------------------------------
(* SpecTemplates: the id field and the value field of a schema are started *)
(* from their templates, changed by the calls of the Field stage, built    *)
(* and read.                                                               *)

TemplateIds == {"_id", "_value"}

NextTemplates ==
    \/ schemaArcs = << >> /\ \E id \in EvalSchemaIds : NewSchema(id)
    \/ BuilderBuild
    \/ Len(fieldArcs) < MaxFieldArcs /\ NewIdField
    \/ Len(fieldArcs) < MaxFieldArcs /\ NewValueField
    \/ \E label \in {"Directory Id"} : Label(label)
    \/ Help("Unique identifier")
    \/ Readonly
    \/ \E c \in Checks : InputCheck(c.transformers, c.validators)
    \/ field.checks.if_thens = << >>
       /\ \E id \in TemplateIds, c \in Checks :
            InputCheckIfEq(id, <<"on">>, c.transformers, c.validators)
    \/ FieldBuild
    \/ SchemaBuild
    \/ \E sid \in EvalSchemaIds, fid \in TemplateIds :
         CallFieldInputCheck(sid, fid, {EmptyMap})

SpecTemplates == Init /\ [][NextTemplates]_vars

----------------------------------------------------------------------------
(* Resolution: claims C1 to C4, under SpecEval *)

ValuesOf(seq) == {seq[j] : j \in 1..Len(seq)}

Min(S) == CHOOSE x \in S : \A y \in S : x <= y

\* The positions of the rules of a Value whose Eval is true under v
Matching(value, v) ==
    {i \in 1..Len(value.if_thens) : EvalEval(value.if_thens[i].eval, v)}

IsValueRead == call.op \in {"Field::default", "Field::input_check"}

\* The Value the last call resolved, when it was Field::default or Field::input_check
ResolvedValue ==
    IF call.op = "Field::default"
    THEN RegisteredField(call.args[1], call.args[2]).default
    ELSE RegisteredField(call.args[1], call.args[2]).checks

FirstMatchWins ==
    IsValueRead =>
        \A v \in SettingsSet :
            Matching(ResolvedValue, v) # {} =>
                call.ret[2][v] =
                    Some(ResolvedValue.if_thens[Min(Matching(ResolvedValue, v))].value)

\* A rule pushed by default_if_eq or input_check_if_eq goes after the rules
\* pushed before it, which stay as they are.
PushedInCallOrder ==
    /\ (call'.op = "default_if_eq" /\ call'.ret = Ok) =>
          field'.default.if_thens =
              Append(field.default.if_thens,
                     [eval |-> [field |-> schema.fields[call'.args[1]],
                                values |-> call'.args[2], condition |-> "MatchAny"],
                      value |-> call'.args[3]])
    /\ (call'.op = "input_check_if_eq" /\ call'.ret = Ok) =>
          field'.checks.if_thens =
              Append(field.checks.if_thens,
                     [eval |-> [field |-> schema.fields[call'.args[1]],
                                values |-> call'.args[2], condition |-> "MatchAny"],
                      value |-> [transformers |-> call'.args[3],
                                 validators |-> call'.args[4]]])

\* C1: Value::eval returns the value of the first rule, in declared order, whose
\* Eval is true, whatever the value source; and the declared order of the rules
\* of a field's default and checks is the order of the default_if_eq and
\* input_check_if_eq calls that pushed them.
C1_FirstMatchInCallOrder == [][PushedInCallOrder /\ FirstMatchWins']_vars

\* Field::default was resolved on two rules with different values that both
\* match under some value source, and returned the first rule's value there.
C1_Witness ==
    /\ call.op = "Field::default"
    /\ Len(ResolvedValue.if_thens) = 2
    /\ ResolvedValue.if_thens[1].value # ResolvedValue.if_thens[2].value
    /\ \E v \in SettingsSet :
          /\ Matching(ResolvedValue, v) = {1, 2}
          /\ call.ret[2][v] = Some(ResolvedValue.if_thens[1].value)

\* C2: when the rule list is empty or no rule matches, Value::eval returns the
\* fallback if one is set and None if none is set, under every value source, and
\* the call returns (it does not panic).
C2_FallbackOrNone ==
    IsValueRead =>
        /\ stage = "built"
        /\ panic = None
        /\ call.ret[1] = "ok"
        /\ DOMAIN call.ret[2] = SettingsSet
        /\ \A v \in SettingsSet :
              Matching(ResolvedValue, v) = {} =>
                  /\ ResolvedValue.default = None => call.ret[2][v] = None
                  /\ ResolvedValue.default # None =>
                        call.ret[2][v] = Some(ResolvedValue.default[1])

\* A Value with a rule and a fallback was resolved under a value source where the
\* rule does not match, and the fallback came back.
C2_Witness ==
    /\ IsValueRead
    /\ Len(ResolvedValue.if_thens) > 0
    /\ ResolvedValue.default # None
    /\ \E v \in SettingsSet :
          /\ Matching(ResolvedValue, v) = {}
          /\ call.ret[2][v] = ResolvedValue.default

\* The Eval the last call evaluated, when it was Eval::eval
EvaluatedEval == RegisteredField(call.args[1], call.args[2]).display[call.args[3]]

Flipped(eval) ==
    [eval EXCEPT !.condition = IF @ = "MatchAny" THEN "MatchNone" ELSE "MatchAny"]

\* C3: Eval::eval with MatchAny is true iff the referenced field's value is
\* present and is one of eval.values; with MatchNone it is true iff the value is
\* absent or is none of eval.values; and for the same field and values the two
\* conditions are complements, under every value source.
C3_MatchAnyMatchNone ==
    call.op = "Eval::eval" =>
        LET eval == EvaluatedEval
            key  == fieldArcs[eval.field].id
        IN  \A v \in SettingsSet :
                LET member == key \in DOMAIN v /\ v[key] \in ValuesOf(eval.values)
                IN  /\ eval.condition = "MatchAny" => (call.ret[2][v] <=> member)
                    /\ eval.condition = "MatchNone" => (call.ret[2][v] <=> ~member)
                    /\ call.ret[2][v] <=> ~EvalEval(Flipped(eval), v)

\* A MatchNone eval with values was evaluated under a value source in which its
\* field is absent, and was true.
C3_Witness ==
    /\ call.op = "Eval::eval"
    /\ EvaluatedEval.condition = "MatchNone"
    /\ EvaluatedEval.values # << >>
    /\ \E v \in SettingsSet :
          /\ fieldArcs[EvaluatedEval.field].id \notin DOMAIN v
          /\ call.ret[2][v] = TRUE

\* The display list the last call was about, when it was a display call
DisplayedList ==
    IF call.op = "Field::display"
    THEN RegisteredField(call.args[1], call.args[2]).display
    ELSE schemaArcs[schemas[call.args[1]]].form.sections[call.args[2]].display

\* C4: display of a field and of a section is true when the display list is empty
\* and otherwise the OR of its evals; a field whose only display eval is
\* display_if_eq("status", ["off"]) is visible exactly when status is "off".
C4_DisplayIsOr ==
    call.op \in {"Field::display", "Section::display"} =>
        \A v \in SettingsSet :
            /\ DisplayedList = << >> => call.ret[2][v] = TRUE
            /\ DisplayedList # << >> =>
                  (call.ret[2][v] <=>
                      \E i \in 1..Len(DisplayedList) : EvalEval(DisplayedList[i], v))
            /\ ( /\ call.op = "Field::display"
                 /\ Len(DisplayedList) = 1
                 /\ DisplayedList[1].condition = "MatchAny"
                 /\ DisplayedList[1].values = <<"off">>
                 /\ fieldArcs[DisplayedList[1].field].id = "status" ) =>
                  (call.ret[2][v] <=> ("status" \in DOMAIN v /\ v["status"] = "off"))

\* Field "reason", built with only display_if_eq("status", ["off"]), was asked
\* whether it is displayed: yes with status "off", no with status "on" or absent.
C4_Witness ==
    /\ call.op = "Field::display"
    /\ call.args[2] = "reason"
    /\ Len(DisplayedList) = 1
    /\ DisplayedList[1].condition = "MatchAny"
    /\ DisplayedList[1].values = <<"off">>
    /\ fieldArcs[DisplayedList[1].field].id = "status"
    /\ \A v \in SettingsSet :
          call.ret[2][v] <=> ("status" \in DOMAIN v /\ v["status"] = "off")
    /\ \E v \in SettingsSet : call.ret[2][v]
    /\ \E v \in SettingsSet : "status" \in DOMAIN v /\ ~call.ret[2][v]

----------------------------------------------------------------------------
(* References to fields: claim C5, under SpecRefs *)

RefOps ==
    {"list_field", "section.field", "input_check_if_eq", "default_if_eq",
     "display_if", "section.display_if"}

\* What a call that refers to field id adds when it returns: the Arc registered
\* under id in the schema in progress, at the end of the list the call is about.
ReferenceAdded(op, id) ==
    LET arc == schema.fields[id]
    IN  CASE op = "list_field" ->
                schema'.list.fields = Append(schema.list.fields, arc)
          [] op = "section.field" ->
                section'.fields = Append(section.fields, arc)
          [] op = "input_check_if_eq" ->
                /\ Len(field'.checks.if_thens) = Len(field.checks.if_thens) + 1
                /\ field'.checks.if_thens[Len(field'.checks.if_thens)].eval.field = arc
          [] op = "default_if_eq" ->
                /\ Len(field'.default.if_thens) = Len(field.default.if_thens) + 1
                /\ field'.default.if_thens[Len(field'.default.if_thens)].eval.field = arc
          [] op = "display_if" ->
                /\ Len(field'.display) = Len(field.display) + 1
                /\ field'.display[Len(field'.display)].field = arc
          [] op = "section.display_if" ->
                /\ Len(section'.display) = Len(section.display) + 1
                /\ section'.display[Len(section'.display)].field = arc

\* C5: a call of list_field, section field, input_check_if_eq, default_if_eq or
\* display_if (of a field or of a section) with a field id that is not registered
\* in the schema in progress panics with a message naming that id and the schema
\* in progress, and adds nothing, whatever other schemas hold; with a registered
\* id it returns and adds the reference to the field registered under the id.
C5_UnregisteredFieldIsFatal ==
    [][call'.op \in RefOps =>
          IF call'.args[1] \in DOMAIN schema.fields
          THEN /\ call'.ret = Ok
               /\ stage' = stage
               /\ panic' = None
               /\ ReferenceAdded(call'.op, call'.args[1])
          ELSE /\ call'.ret = Panicked
               /\ stage' = "panicked"
               /\ panic' # None
               /\ panic'[1].field = Some(call'.args[1])
               /\ panic'[1].schema = Some(schema.id)
               /\ UNCHANGED <<schemas, schemaArcs, fieldArcs, schema, field, section>>
      ]_vars

\* A call referred to a field id that a built schema registers and the schema in
\* progress does not, and panicked naming the id and the schema in progress.
C5_Witness ==
    /\ stage = "panicked"
    /\ call.op \in RefOps
    /\ call.args[1] \notin DOMAIN schema.fields
    /\ \E sid \in DOMAIN schemas :
          /\ sid # schema.id
          /\ call.args[1] \in DOMAIN schemaArcs[schemas[sid]].fields
    /\ panic = Some(FieldNotFound(call.args[1], schema.id))

----------------------------------------------------------------------------
(* The registry under construction: claims C6 to C10, under Spec *)

InProgress == {"schema", "field", "section"}

Rank(typ) ==
    CASE typ[1] = "List" -> 0
      [] typ[1] = "Entry" -> 1
      [] typ[1] = "Record" -> 2

\* C6: prefix() returns only from List and makes the type Entry{prefix}; suffix()
\* returns only from Entry and makes it Record{prefix, suffix} with the prefix
\* already set; from any other type each panics and leaves the type as it is. No
\* other call changes the type of the schema in progress, so it only moves
\* List -> Entry -> Record.
C6_TypeOnlyMovesForward ==
    [][/\ call'.op = "prefix" =>
            IF schema.typ = <<"List">>
            THEN call'.ret = Ok /\ schema'.typ = <<"Entry", call'.args[1]>>
            ELSE /\ call'.ret = Panicked
                 /\ stage' = "panicked"
                 /\ panic' = Some(NotList)
                 /\ schema' = schema
       /\ call'.op = "suffix" =>
            IF schema.typ[1] = "Entry"
            THEN call'.ret = Ok
                 /\ schema'.typ = <<"Record", schema.typ[2], call'.args[1]>>
            ELSE /\ call'.ret = Panicked
                 /\ stage' = "panicked"
                 /\ panic' = Some(NotRecord)
                 /\ schema' = schema
       /\ (stage \in InProgress /\ stage' \in InProgress \cup {"panicked"}) =>
            /\ Rank(schema'.typ) >= Rank(schema.typ)
            /\ schema'.typ # schema.typ =>
                  /\ call'.op \in {"prefix", "suffix"}
                  /\ Rank(schema'.typ) = Rank(schema.typ) + 1
      ]_vars

\* suffix() was called after prefix("q") and made the type Record with prefix "q".
C6_Witness ==
    /\ stage = "schema"
    /\ call.op = "suffix"
    /\ call.ret = Ok
    /\ schema.typ = <<"Record", "q", "x">>

\* The ids of the schemas built so far
BuiltIds == {schemaArcs[i].id : i \in 1..Len(schemaArcs)}

\* C7: every schema id that was built is registered, under it the registry holds
\* a schema with exactly that id, and get returns that schema; get with an id that
\* was never built panics with a message naming the id and returns nothing.
C7_GetReturnsTheSchemaOfThatId ==
    /\ DOMAIN schemas = BuiltIds
    /\ \A id \in DOMAIN schemas : schemaArcs[schemas[id]].id = id
    /\ call.op = "get" =>
          IF call.args[1] \in BuiltIds
          THEN /\ stage = "built"
               /\ call.ret[1] = "ok"
               /\ call.ret[2] = schemas[call.args[1]]
               /\ schemaArcs[call.ret[2]].id = call.args[1]
          ELSE /\ stage = "panicked"
               /\ call.ret = Panicked
               /\ panic = Some(SchemaNotFound(call.args[1]))

\* Schemas "s" and "t" were built and get returned one of them.
C7_Witness ==
    /\ call.op = "get"
    /\ call.ret[1] = "ok"
    /\ BuiltIds = {"s", "t"}
    /\ schemaArcs[call.ret[2]].id = call.args[1]

IsDynamicTyp(typ_) == typ_[1] = "Select" /\ typ_[2][1] = "Dynamic"

\* C8: typ(Select(Dynamic{schema, field})) returns only if the schema id is in the
\* registry when it is called, and the source then holds the registered schema; if
\* the id is not in the registry, also when it is the id of the schema in
\* progress, the call panics and the field keeps its kind.
C8_DynamicSchemaMustBeBuilt ==
    [][(call'.op = "typ" /\ IsDynamicTyp(call'.args[1])) =>
          IF call'.args[1][2][2] \in DOMAIN schemas
          THEN call'.ret = Ok =>
                  /\ IsDynamicTyp(field'.typ_)
                  /\ field'.typ_[2][2] = schemas[call'.args[1][2][2]]
          ELSE /\ call'.ret = Panicked
               /\ stage' = "panicked"
               /\ panic' # None
               /\ field' = field
      ]_vars

\* typ(Select(Dynamic)) returned, naming a schema built before the one in progress.
C8_Witness ==
    /\ stage = "field"
    /\ call.op = "typ"
    /\ call.ret = Ok
    /\ IsDynamicTyp(field.typ_)
    /\ schemaArcs[field.typ_[2][2]].id # schema.id

\* Every field there is: built, or in progress
AllFields == {fieldArcs[i] : i \in 1..Len(fieldArcs)} \cup {field}

\* C9: the field of every Select(Dynamic{schema, field}) kind the builder accepted
\* is the field registered under its id in the field map of the source's schema.
C9_DynamicFieldIsOfSourceSchema ==
    \A f \in AllFields :
        IsDynamicTyp(f.typ_) =>
            LET source == schemaArcs[f.typ_[2][2]]
                arc    == f.typ_[2][3]
            IN  /\ fieldArcs[arc].id \in DOMAIN source.fields
                /\ source.fields[fieldArcs[arc].id] = arc

\* Registered schema id x has a field whose Dynamic source names schema id y
DynamicRefs ==
    {xy \in SchemaIds \X SchemaIds :
        /\ xy[1] \in DOMAIN schemas
        /\ \E fid \in DOMAIN schemaArcs[schemas[xy[1]]].fields :
              LET f == fieldArcs[schemaArcs[schemas[xy[1]]].fields[fid]]
              IN  IsDynamicTyp(f.typ_) /\ schemaArcs[f.typ_[2][2]].id = xy[2]}

RECURSIVE PathsUpTo(_, _)
\* The pairs joined by a path of at most n + 1 steps of R
PathsUpTo(R, n) ==
    IF n = 0
    THEN R
    ELSE LET P == PathsUpTo(R, n - 1)
         IN  P \cup {xz \in SchemaIds \X SchemaIds :
                        \E y \in SchemaIds : <<xz[1], y>> \in P /\ <<y, xz[2]>> \in R}

\* C10: over the registry, the relation "schema id x has a field whose Dynamic
\* source names schema id y" has no cycle: no schema id refers to itself, directly
\* or through others.
C10_DynamicSourcesAcyclic ==
    \A x \in SchemaIds : <<x, x>> \notin PathsUpTo(DynamicRefs, Cardinality(SchemaIds))

\* C11: building a schema whose id is already in the registry, or a field whose
\* id is already in the field map of the schema in progress, panics, and the item
\* registered earlier under the id stays registered.
C11_DuplicateBuildIsFatal ==
    [][/\ (call'.op = "schema.build" /\ schema.id \in DOMAIN schemas) =>
            /\ call'.ret = Panicked
            /\ stage' = "panicked"
            /\ schemas' = schemas
       /\ (call'.op = "field.build" /\ field.id \in DOMAIN schema.fields) =>
            /\ call'.ret = Panicked
            /\ stage' = "panicked"
            /\ schema'.fields = schema.fields
      ]_vars

----------------------------------------------------------------------------
(* build() at each stage: claim C12, under SpecBuild *)

\* What map m holds after value v was put under key k: v under k, and under
\* every other key what it held
Registered(m2, m, k, v) ==
    /\ DOMAIN m2 = DOMAIN m \cup {k}
    /\ m2[k] = v
    /\ \A x \in DOMAIN m \ {k} : m2[x] = m[x]

\* Sequence s2 is s with x put at its end
PushedLast(s2, s, x) ==
    /\ Len(s2) = Len(s) + 1
    /\ s2[Len(s2)] = x
    /\ \A i \in 1..Len(s) : s2[i] = s[i]

\* C12: build() of a field puts the field, as it is, under its id in the field
\* map of the schema in progress and goes back to the Schema stage; build() of a
\* section puts the section at the end of the form's sections and goes back to
\* the Schema stage; build() of a schema puts the schema, as it is, under its id
\* in the registry and goes back to the empty stage. Each leaves every other
\* field, section, list-view entry and registered schema as it was.
C12_BuildFrame ==
    [][/\ call'.op = "field.build" =>
            /\ stage = "field" /\ stage' = "schema"
            /\ PushedLast(fieldArcs', fieldArcs, field)
            /\ Registered(schema'.fields, schema.fields, field.id, Len(fieldArcs'))
            /\ schema' = [schema EXCEPT !.fields = schema'.fields]
            /\ UNCHANGED <<schemas, schemaArcs, section>>
       /\ call'.op = "section.build" =>
            /\ stage = "section" /\ stage' = "schema"
            /\ PushedLast(schema'.form.sections, schema.form.sections, section)
            /\ schema' = [schema EXCEPT !.form.sections = schema'.form.sections]
            /\ UNCHANGED <<schemas, schemaArcs, fieldArcs, field>>
       /\ call'.op = "schema.build" =>
            /\ stage = "schema" /\ stage' = "empty"
            /\ PushedLast(schemaArcs', schemaArcs, schema)
            /\ Registered(schemas', schemas, schema.id, Len(schemaArcs'))
            /\ UNCHANGED <<fieldArcs, field, section>>
      ]_vars

\* A second schema was built into the registry; it holds a field, a list-view
\* entry and two sections with different titles, in the order they were built.
C12_Witness ==
    /\ stage = "empty"
    /\ call.op = "schema.build"
    /\ DOMAIN schemas = SchemaIds
    /\ LET built == schemaArcs[Len(schemaArcs)]
       IN  /\ built.fields # EmptyMap
           /\ built.list.fields # << >>
           /\ Len(built.form.sections) = 2
           /\ built.form.sections[1].title = Some("General")
           /\ built.form.sections[2].title = Some("Advanced")

----------------------------------------------------------------------------
(* The finished registry: claims C13 to C20 *)

FieldReadOps ==
    {"Field::value", "Field::label", "Field::display", "Field::default",
     "Field::placeholder", "Field::input_check", "Field::is_required"}

ReadOps ==
    FieldReadOps \cup
    {"get", "build_form", "unwrap_prefix", "try_unwrap_suffix", "Source::display"}

\* What read op returns for field f under value source v
ReadResult(op, f, v) ==
    CASE op = "Field::value" -> FieldValue(f, v)
      [] op = "Field::label" -> FieldLabel(f, v)
      [] op = "Field::display" -> Display(f.display, v)
      [] op = "Field::default" -> ValueEval(f.default, v)
      [] op = "Field::placeholder" -> FieldPlaceholder(f, v)
      [] op = "Field::input_check" -> FieldInputCheck(f, v)
      [] op = "Field::is_required" -> FieldIsRequired(f, v)

\* The last call was a read of a registered field, and under every value source
\* it returned what the field as registered now gives for that value source
ResultIsOfRegistry ==
    call.op \in FieldReadOps =>
        call.ret = Returned([v \in ReadSettings |->
                      ReadResult(call.op,
                                 RegisteredField(call.args[1], call.args[2]), v)])

CheckInForce(f, v) ==
    IF Matching(f.checks, v) # {}
    THEN Some(f.checks.if_thens[Min(Matching(f.checks, v))].value)
    ELSE f.checks.default

\* C14: under every value source, is_required of a Checkbox or Select field is
\* true whatever its checks and the values are; of a field of any other kind it
\* is true exactly when the InputCheck in force has the Required validator, and
\* false when no InputCheck is in force.
C14_IsRequired ==
    call.op = "Field::is_required" =>
        LET f == RegisteredField(call.args[1], call.args[2])
        IN  \A v \in ReadSettings :
                call.ret[2][v] =
                    IF f.typ_[1] \in {"Checkbox", "Select"}
                    THEN TRUE
                    ELSE /\ CheckInForce(f, v) # None
                         /\ "Required" \in ValuesOf(CheckInForce(f, v)[1].validators)

\* is_required was read of a Checkbox field whose only check has no Required
\* validator, and is true under every value source.
C14_Witness ==
    /\ call.op = "Field::is_required"
    /\ LET f == RegisteredField(call.args[1], call.args[2])
       IN  /\ f.typ_ = <<"Checkbox">>
           /\ f.checks.if_thens = << >>
           /\ f.checks.default = Some(InputCheckNew(<<"Trim">>, << >>))
    /\ \A v \in ReadSettings : call.ret[2][v] = TRUE

----------------------------------------------------------------------------
(* Defaults: claim C15, under SpecEval *)

\* The last call read the default of a field that has one conditional default
\* and a fallback: under every value source it returned the conditional default
\* when the field the rule refers to has one of the rule's values, and the
\* fallback when it has another value or none.
RuleThenFallback ==
    call.op = "Field::default" =>
        LET f == RegisteredField(call.args[1], call.args[2])
        IN  (Len(f.default.if_thens) = 1 /\ f.default.default # None) =>
                LET rule == f.default.if_thens[1]
                    mode == fieldArcs[rule.eval.field].id
                IN  \A v \in SettingsSet :
                        call.ret[2][v] =
                            IF /\ mode \in DOMAIN v
                               /\ v[mode] \in ValuesOf(rule.eval.values)
                            THEN Some(rule.value)
                            ELSE f.default.default

\* C15: default() sets the fallback and leaves the conditional defaults as they
\* are; default_if_eq() adds a conditional default and leaves the fallback as it
\* is; so in either call order the field has the same rule and fallback, and its
\* default resolves to the conditional default when the rule's field has one of
\* the rule's values and to the fallback when it has another value or none.
C15_DefaultOrderIndependent ==
    [][/\ call'.op = "default" =>
            /\ field'.default.if_thens = field.default.if_thens
            /\ field'.default.default = Some(call'.args[1])
       /\ (call'.op = "default_if_eq" /\ call'.ret = Ok) =>
            /\ field'.default.default = field.default.default
            /\ Len(field'.default.if_thens) = Len(field.default.if_thens) + 1
            /\ \A i \in 1..Len(field.default.if_thens) :
                  field'.default.if_thens[i] = field.default.if_thens[i]
       /\ RuleThenFallback'
      ]_vars

\* The default of a field built with default_if_eq("status", ["off"], "1s") and
\* default("30s") was read: it is "1s" when status is "off", and "30s" when
\* status is "on" or absent.
C15_Witness ==
    /\ call.op = "Field::default"
    /\ LET f == RegisteredField(call.args[1], call.args[2])
       IN  /\ Len(f.default.if_thens) = 1
           /\ fieldArcs[f.default.if_thens[1].eval.field].id = "status"
           /\ f.default.if_thens[1].eval.values = <<"off">>
           /\ f.default.if_thens[1].value = "1s"
           /\ f.default.default = Some("30s")
    /\ \A v \in SettingsSet :
          call.ret[2][v] = IF "status" \in DOMAIN v /\ v["status"] = "off"
                           THEN Some("1s")
                           ELSE Some("30s")

----------------------------------------------------------------------------
(* Values and labels: claims C16 and C17, under SpecRead *)

\* The current value of field f under v: the stored string, "" when absent
Current(f, v) == IF f.id \in DOMAIN v THEN v[f.id] ELSE ""

\* The labels the pairs of a static table give for key
LabelsOf(items, key) ==
    {items[i][2] : i \in {j \in 1..Len(items) : items[j][1] = key}}

\* C16: under every value source, value is the field's stored string, or "" when
\* it has none. label is that current value for a field that is no Select; for
\* a Select(Static) whose table has the current value as a key it is the label
\* the table pairs with the key; for a Select(Dynamic) whose source field has a
\* value in the same value source it is that value.
C16_ValueAndLabel ==
    /\ call.op = "Field::value" =>
          \A v \in ReadSettings :
              call.ret[2][v] = Current(RegisteredField(call.args[1], call.args[2]), v)
    /\ call.op = "Field::label" =>
          LET f == RegisteredField(call.args[1], call.args[2])
          IN  \A v \in ReadSettings :
                  IF f.typ_[1] # "Select"
                  THEN call.ret[2][v] = Current(f, v)
                  ELSE IF f.typ_[2][1] = "Static"
                  THEN LabelsOf(f.typ_[2][2], Current(f, v)) # {} =>
                          call.ret[2][v] \in LabelsOf(f.typ_[2][2], Current(f, v))
                  ELSE fieldArcs[f.typ_[2][3]].id \in DOMAIN v =>
                          call.ret[2][v] = v[fieldArcs[f.typ_[2][3]].id]

\* The label of a Select(Dynamic) field was read whose source field is another
\* field: where that field has a value the label is that value, not the current
\* value of the Select field.
C16_Witness ==
    /\ call.op = "Field::label"
    /\ LET f == RegisteredField(call.args[1], call.args[2])
       IN  /\ IsDynamicTyp(f.typ_)
           /\ fieldArcs[f.typ_[2][3]].id # f.id
           /\ \E v \in ReadSettings :
                 /\ DOMAIN v = FieldIds
                 /\ v[f.id] # v[fieldArcs[f.typ_[2][3]].id]
                 /\ call.ret[2][v] = v[fieldArcs[f.typ_[2][3]].id]

\* The source of Select field f has no label for key under v: the key is no key
\* of the static table, or the field of the dynamic source has no value
NoLabel(f, key, v) ==
    IF f.typ_[2][1] = "Static"
    THEN LabelsOf(f.typ_[2][2], key) = {}
    ELSE fieldArcs[f.typ_[2][3]].id \notin DOMAIN v

\* C17: when the source of a Select field has no label for a key, Source::display
\* returns None, and only then; it does not panic. Field::label of such a field
\* does not panic either: where the source has no label for the current value
\* it returns the current value.
C17_NoLabelIsAbsence ==
    /\ call.op = "Source::display" =>
          /\ stage = "built"
          /\ call.ret # Panicked
          /\ LET f == RegisteredField(call.args[1], call.args[2])
             IN  \A v \in ReadSettings :
                     (call.ret[2][v] = None) <=> NoLabel(f, call.args[3], v)
    /\ call.op = "Field::label" =>
          /\ stage = "built"
          /\ call.ret # Panicked
          /\ LET f == RegisteredField(call.args[1], call.args[2])
             IN  f.typ_[1] = "Select" =>
                    \A v \in ReadSettings :
                        NoLabel(f, Current(f, v), v) => call.ret[2][v] = Current(f, v)

\* Source::display was asked for "z" on a field whose static table has the one
\* key "k", and returned None under every value source.
C17_Witness ==
    /\ call.op = "Source::display"
    /\ call.args[3] = "z"
    /\ RegisteredField(call.args[1], call.args[2]).typ_[2] = <<"Static", <<<<"k", "v">>>>>>
    /\ \A v \in ReadSettings : call.ret[2][v] = None

----------------------------------------------------------------------------
(* Schema accessors and forms: claims C18 and C20, under SpecRead *)

\* C18: unwrap_prefix returns the prefix of an Entry or Record schema and panics
\* on a List schema; try_unwrap_suffix never panics and returns the suffix of a
\* Record schema and None for an Entry or List schema. So for the schema built
\* with prefix("p") and suffix("x") they return "p" and "x".
C18_PrefixAndSuffix ==
    /\ call.op = "unwrap_prefix" =>
          LET typ == schemaArcs[schemas[call.args[1]]].typ
          IN  IF typ[1] = "List"
              THEN /\ call.ret = Panicked
                   /\ stage = "panicked"
                   /\ panic = Some(NotRecordOrEntry)
              ELSE /\ stage = "built"
                   /\ call.ret = Returned(typ[2])
                   /\ typ[2] = "p"
    /\ call.op = "try_unwrap_suffix" =>
          LET typ == schemaArcs[schemas[call.args[1]]].typ
          IN  /\ stage = "built"
              /\ call.ret = Returned(IF typ[1] = "Record" THEN Some(typ[3]) ELSE None)
              /\ typ[1] = "Record" => call.ret = Returned(Some("x"))

\* unwrap_prefix was called on a registered schema built with prefix("p") and
\* suffix("x"), and returned "p".
C18_Witness ==
    /\ call.op = "unwrap_prefix"
    /\ schemaArcs[schemas[call.args[1]]].typ = <<"Record", "p", "x">>
    /\ call.ret = Returned("p")

\* C20: build_form(id) with a registered id returns a form whose schema is the
\* schema registered under id, with no values, no errors and is_update false;
\* with an id that is not registered it panics as get does.
C20_BuildForm ==
    call.op = "build_form" =>
        IF call.args[1] \in DOMAIN schemas
        THEN /\ stage = "built"
             /\ call.ret[1] = "ok"
             /\ call.ret[2].schema = schemas[call.args[1]]
             /\ schemaArcs[call.ret[2].schema].id = call.args[1]
             /\ call.ret[2].values = EmptyMap
             /\ call.ret[2].errors = EmptyMap
             /\ call.ret[2].is_update = FALSE
        ELSE /\ stage = "panicked"
             /\ call.ret = Panicked
             /\ panic = Some(SchemaNotFound(call.args[1]))

\* Two schemas are registered and build_form returned an empty form for the one
\* built first.
C20_Witness ==
    /\ call.op = "build_form"
    /\ call.ret[1] = "ok"
    /\ DOMAIN schemas = SchemaIds
    /\ call.ret[2] = FormDataFrom(1)
    /\ schemaArcs[1].id = call.args[1]

----------------------------------------------------------------------------
(* Field templates: claim C19, under SpecTemplates *)

\* The checks and the readonly setting new_id_field and new_value_field give
TemplateChecks(id) ==
    IF id = "_id"
    THEN [if_thens |-> << >>,
          default |-> Some(InputCheckNew(<<"Trim", "Lowercase">>, <<"Required", "IsId">>))]
    ELSE [if_thens |-> << >>, default |-> Some(InputCheckNew(<<"Trim">>, << >>))]

TemplateReadonly(id) == id = "_id"

IsTemplate(f) ==
    /\ f.typ_ = <<"Input">>
    /\ f.checks = TemplateChecks(f.id)
    /\ f.readonly = TemplateReadonly(f.id)

\* C19: the field new_id_field starts has id "_id", kind Input, the fallback check
\* [Trim, Lowercase], [Required, IsId] and no other, and is readonly; the field
\* new_value_field starts has id "_value", kind Input and the fallback check
\* [Trim], [] and no other; and every field registered under "_id" or "_value"
\* has exactly the checks and the readonly setting of its template, whatever was
\* called before its build().
C19_TemplatesAreFixed ==
    /\ call.op = "new_id_field" => (field.id = "_id" /\ IsTemplate(field))
    /\ call.op = "new_value_field" => (field.id = "_value" /\ IsTemplate(field))
    /\ \A id \in DOMAIN schema.fields : IsTemplate(fieldArcs[schema.fields[id]])
    /\ \A sid \in DOMAIN schemas :
          \A id \in DOMAIN schemaArcs[schemas[sid]].fields :
              IsTemplate(fieldArcs[schemaArcs[schemas[sid]].fields[id]])

----------------------------------------------------------------------------
(* References and the field map: claim C21, under SpecRefs *)

\* The fields the Evals of a Value refer to
RuleFields(value) == {value.if_thens[j].eval.field : j \in 1..Len(value.if_thens)}

\* The fields the Evals of a display list refer to
DisplayFields(display) == {display[j].field : j \in 1..Len(display)}

\* Every Arc<Field> a schema holds outside the values of its field map: in its
\* list view, in the sections of its form, and in the Evals of its sections and
\* of the fields of its map
ReferredFields(sc) ==
    ValuesOf(sc.list.fields)
    \cup UNION {ValuesOf(sc.form.sections[i].fields)
                \cup DisplayFields(sc.form.sections[i].display) :
                i \in 1..Len(sc.form.sections)}
    \cup UNION {LET f == fieldArcs[sc.fields[fid]]
                IN  DisplayFields(f.display) \cup RuleFields(f.default)
                    \cup RuleFields(f.checks) :
                fid \in DOMAIN sc.fields}

\* C21: every field that a registered schema's list view, form sections or
\* Evals refer to is the very field registered under its id in that schema's
\* field map; no view or condition holds a field that was replaced in the map.
C21_ReferencesAreRegistered ==
    \A sid \in DOMAIN schemas :
        LET sc == schemaArcs[schemas[sid]]
        IN  \A x \in ReferredFields(sc) :
                /\ fieldArcs[x].id \in DOMAIN sc.fields
                /\ sc.fields[fieldArcs[x].id] = x

----------------------------------------------------------------------------
(* SpecTls: the calls of build_tls (src/pages/config/schema/tls.rs), made  *)
(* in their order on a new builder. list_fields and fields are the loops   *)
(* of list_field and field calls that they run. reload_prefix is not a     *)
(* method of core/schema.rs and is left out; Type::Boolean is passed to    *)
(* typ as a kind without data; the multi flag of Type::Select, which the   *)
(* Type of core/schema.rs does not have, is left out.                      *)

TLS_PROTOCOLS == <<<<"TLSv1.2", "TLS version 1.2">>, <<"TLSv1.3", "TLS version 1.3">>>>

TLS_CIPHERSUITES ==
    <<<<"TLS13_AES_256_GCM_SHA384", "TLS1.3 AES256 GCM SHA384">>,
      <<"TLS13_AES_128_GCM_SHA256", "TLS1.3 AES128 GCM SHA256">>,
      <<"TLS13_CHACHA20_POLY1305_SHA256", "TLS1.3 CHACHA20 POLY1305 SHA256">>,
      <<"TLS_ECDHE_ECDSA_WITH_AES_256_GCM_SHA384", "ECDHE ECDSA AES256 GCM SHA384">>,
      <<"TLS_ECDHE_ECDSA_WITH_AES_128_GCM_SHA256", "ECDHE ECDSA AES128 GCM SHA256">>,
      <<"TLS_ECDHE_ECDSA_WITH_CHACHA20_POLY1305_SHA256",
        "ECDHE ECDSA CHACHA20 POLY1305 SHA256">>,
      <<"TLS_ECDHE_RSA_WITH_AES_256_GCM_SHA384", "ECDHE RSA AES256 GCM SHA384">>,
      <<"TLS_ECDHE_RSA_WITH_AES_128_GCM_SHA256", "ECDHE RSA AES128 GCM SHA256">>,
      <<"TLS_ECDHE_RSA_WITH_CHACHA20_POLY1305_SHA256",
        "ECDHE RSA CHACHA20 POLY1305 SHA256">>>>

\* One call of the chain: the name the call is recorded under and its arguments
TlsCall(op, args) == [op |-> op, args |-> args]

\* list_fields: list_field for each id, in order
ListFieldsCalls(ids) == [i \in 1..Len(ids) |-> TlsCall("list_field", <<ids[i]>>)]

\* Section fields: field for each id, in order
FieldsCalls(ids) == [i \in 1..Len(ids) |-> TlsCall("section.field", <<ids[i]>>)]

\* build_tls, lines 5-97: the schema "acme"
AcmeCalls ==
    <<TlsCall("new_schema", <<"acme">>),
      TlsCall("names", <<"ACME provider", "ACME providers">>),
      TlsCall("prefix", <<"acme">>),
      TlsCall("suffix", <<"directory">>),
      TlsCall("new_id_field", << >>),
      TlsCall("label", <<"Directory Id">>),
      TlsCall("help", <<"Unique identifier for the ACME provider">>),
      TlsCall("field.build", << >>),
      TlsCall("schema.new_field", <<"directory">>),
      TlsCall("label", <<"Directory URL">>),
      TlsCall("help", <<"The URL of the ACME directory endpoint">>),
      TlsCall("typ", <<<<"Input">>>>),
      TlsCall("input_check", <<<<"Trim">>, <<"Required", "IsUrl">>>>),
      TlsCall("default", <<"https://acme-v02.api.letsencrypt.org/directory">>),
      TlsCall("field.build", << >>),
      TlsCall("schema.new_field", <<"domains">>),
      TlsCall("typ", <<<<"Array">>>>),
      TlsCall("input_check", <<<<"Trim">>, <<"Required">>>>),
      TlsCall("label", <<"Domains">>),
      TlsCall("help", <<"Domains covered by this ACME manager">>),
      TlsCall("field.build", << >>),
      TlsCall("schema.new_field", <<"default">>),
      TlsCall("typ", <<<<"Boolean">>>>),
      TlsCall("label", <<"Default provider">>),
      TlsCall("help", <<"Whether the certificates generated by this provider should be the default when no SNI is provided">>),
      TlsCall("field.build", << >>),
      TlsCall("schema.new_field", <<"contact">>),
      TlsCall("label", <<"Contact Email">>),
      TlsCall("help", <<"the contact email address, which is used for important communications regarding your ACME account and certificates">>),
      TlsCall("typ", <<<<"Array">>>>),
      TlsCall("input_check", <<<<"Trim">>, <<"Required", "IsEmail">>>>),
      TlsCall("field.build", << >>),
      TlsCall("schema.new_field", <<"renew-before">>),
      TlsCall("typ", <<<<"Duration">>>>),
      TlsCall("label", <<"Renew before">>),
      TlsCall("help", <<"Determines how early before expiration the certificate should be renewed.">>),
      TlsCall("input_check", <<<<"Trim">>, <<"Required">>>>),
      TlsCall("default", <<"30d">>),
      TlsCall("field.build", << >>),
      TlsCall("schema.new_field", <<"account-key">>),
      TlsCall("label", <<"Account key">>),
      TlsCall("help", <<"The account key used to authenticate with the ACME provider (auto-generated)">>),
      TlsCall("typ", <<<<"Secret">>>>),
      TlsCall("field.build", << >>),
      TlsCall("schema.new_field", <<"cert">>),
      TlsCall("label", <<"TLS Certificate">>),
      TlsCall("help", <<"The TLS certificate generated by the ACME provider (auto-generated, do not modify)">>),
      TlsCall("typ", <<<<"Secret">>>>),
      TlsCall("field.build", << >>),
      TlsCall("list_title", <<"ACME providers">>),
      TlsCall("list_subtitle", <<"Manage ACME TLS certificate providers">>)>>
    \o ListFieldsCalls(<<"_id", "contact", "renew-before", "default">>)
    \o <<TlsCall("new_form_section", << >>),
         TlsCall("title", <<"ACME provider">>)>>
    \o FieldsCalls(<<"_id", "directory", "contact", "domains", "renew-before", "default">>)
    \o <<TlsCall("section.build", << >>),
         TlsCall("new_form_section", << >>),
         TlsCall("title", <<"Certificate">>)>>
    \o FieldsCalls(<<"account-key", "cert">>)
    \o <<TlsCall("section.build", << >>),
         TlsCall("schema.build", << >>)>>

\* build_tls, lines 99-145: the schema "certificate"
CertificateCalls ==
    <<TlsCall("new_schema", <<"certificate">>),
      TlsCall("names", <<"certificate", "certificates">>),
      TlsCall("prefix", <<"certificate">>),
      TlsCall("suffix", <<"cert">>),
      TlsCall("new_id_field", << >>),
      TlsCall("label", <<"Certificate Id">>),
      TlsCall("help", <<"Unique identifier for the TLS certificate">>),
      TlsCall("field.build", << >>),
      TlsCall("schema.new_field", <<"default">>),
      TlsCall("typ", <<<<"Boolean">>>>),
      TlsCall("label", <<"Default certificate">>),
      TlsCall("help", <<"Whether this certificate should be the default when no SNI is provided">>),
      TlsCall("field.build", << >>),
      TlsCall("schema.new_field", <<"cert">>),
      TlsCall("label", <<"Certificate">>),
      TlsCall("typ", <<<<"Text">>>>),
      TlsCall("help", <<"TLS certificate in PEM format">>),
      TlsCall("input_check", <<<<"Trim">>, <<"Required">>>>),
      TlsCall("field.build", << >>),
      TlsCall("schema.new_field", <<"private-key">>),
      TlsCall("label", <<"Private Key">>),
      TlsCall("typ", <<<<"Text">>>>),
      TlsCall("help", <<"Private key in PEM format">>),
      TlsCall("input_check", <<<<"Trim">>, <<"Required">>>>),
      TlsCall("field.build", << >>),
      TlsCall("schema.new_field", <<"subjects">>),
      TlsCall("typ", <<<<"Array">>>>),
      TlsCall("input_check", <<<<"Trim">>, <<"IsDomain">>>>),
      TlsCall("label", <<"Subject Alternative Names">>),
      TlsCall("help", <<"Subject Alternative Names (SAN) for the certificate">>),
      TlsCall("field.build", << >>),
      TlsCall("list_title", <<"TLS certificates">>),
      TlsCall("list_subtitle", <<"Manage TLS certificates">>)>>
    \o ListFieldsCalls(<<"_id", "subjects", "default">>)
    \o <<TlsCall("new_form_section", << >>),
         TlsCall("title", <<"TLS certificate">>)>>
    \o FieldsCalls(<<"_id", "cert", "private-key", "subjects", "default">>)
    \o <<TlsCall("section.build", << >>),
         TlsCall("schema.build", << >>)>>

\* add_tls_fields(is_listener), lines 165-221: do_override is ["true"] for a
\* listener and [] otherwise, and the four ids have the prefix "server." only
\* when is_listener is false
AddTlsFieldsCalls(is_listener) ==
    LET do_override == IF is_listener THEN <<"true">> ELSE << >>
        id(name) == IF is_listener THEN name[1] ELSE name[2]
    IN  <<TlsCall("schema.new_field",
                  <<id(<<"tls.ignore-client-order", "server.tls.ignore-client-order">>)>>),
          TlsCall("label", <<"Ignore client order">>),
          TlsCall("help", <<"Whether to ignore the client's cipher order">>),
          TlsCall("typ", <<<<"Boolean">>>>),
          TlsCall("default", <<"true">>),
          TlsCall("display_if", <<"tls.override", do_override, "MatchAny">>),
          TlsCall("field.build", << >>),
          TlsCall("schema.new_field", <<id(<<"tls.timeout", "server.tls.timeout">>)>>),
          TlsCall("label", <<"Handshake Timeout">>),
          TlsCall("help", <<"TLS handshake timeout">>),
          TlsCall("typ", <<<<"Duration">>>>),
          TlsCall("default", <<"1m">>),
          TlsCall("display_if", <<"tls.override", do_override, "MatchAny">>),
          TlsCall("field.build", << >>),
          TlsCall("schema.new_field",
                  <<id(<<"tls.disable-protocols", "server.tls.disable-protocols">>)>>),
          TlsCall("label", <<"Disabled Protocols">>),
          TlsCall("help", <<"Which TLS protocols to disable">>),
          TlsCall("typ", <<<<"Select", <<"Static", TLS_PROTOCOLS>>>>>>),
          TlsCall("display_if", <<"tls.override", do_override, "MatchAny">>),
          TlsCall("field.build", << >>),
          TlsCall("schema.new_field",
                  <<id(<<"tls.disable-ciphers", "server.tls.disable-ciphers">>)>>),
          TlsCall("label", <<"Disabled Ciphersuites">>),
          TlsCall("help", <<"Which ciphersuites to disable">>),
          TlsCall("typ", <<<<"Select", <<"Static", TLS_CIPHERSUITES>>>>>>),
          TlsCall("display_if", <<"tls.override", do_override, "MatchAny">>),
          TlsCall("field.build", << >>)>>

\* build_tls, lines 147-160: the schema "tls"
TlsSettingsCalls ==
    <<TlsCall("new_schema", <<"tls">>)>>
    \o AddTlsFieldsCalls(FALSE)
    \o <<TlsCall("new_form_section", << >>),
         TlsCall("title", <<"Default TLS options">>)>>
    \o FieldsCalls(<<"server.tls.disable-protocols", "server.tls.disable-ciphers",
                     "server.tls.timeout", "server.tls.ignore-client-order">>)
    \o <<TlsCall("section.build", << >>),
         TlsCall("schema.build", << >>)>>

\* build_tls
BuildTlsCalls == AcmeCalls \o CertificateCalls \o TlsSettingsCalls

\* How many of the first n calls of the chain have the name op
CountCalls(calls, op, n) == Cardinality({i \in 1..n : calls[i].op = op})

RECURSIVE SumSections(_)
\* The sections in the forms of the schemas of seq
SumSections(seq) ==
    IF seq = << >> THEN 0 ELSE Len(Head(seq).form.sections) + SumSections(Tail(seq))

\* The builder has made the first n calls of the chain and no other: the last
\* call is the n-th, and as many fields, sections and schemas are built as the
\* first n calls build
MadeCalls(calls, n) ==
    /\ IF n = 0
       THEN call.op = "builder"
       ELSE call.op = calls[n].op /\ call.args = calls[n].args
    /\ Len(fieldArcs) = CountCalls(calls, "field.build", n)
    /\ Len(schemaArcs) = CountCalls(calls, "schema.build", n)
    /\ SumSections(schemaArcs) + Len(schema.form.sections)
         = CountCalls(calls, "section.build", n)

\* The builder method that a call of the chain names, on its arguments
MakeCall(c) ==
    \/ c.op = "new_schema" /\ NewSchema(c.args[1])
    \/ c.op = "names" /\ Names(c.args[1], c.args[2])
    \/ c.op = "prefix" /\ Prefix(c.args[1])
    \/ c.op = "suffix" /\ Suffix(c.args[1])
    \/ c.op = "new_id_field" /\ NewIdField
    \/ c.op = "schema.new_field" /\ SchemaNewField(c.args[1])
    \/ c.op = "list_title" /\ ListTitle(c.args[1])
    \/ c.op = "list_subtitle" /\ ListSubtitle(c.args[1])
    \/ c.op = "list_field" /\ ListField(c.args[1])
    \/ c.op = "new_form_section" /\ NewFormSection
    \/ c.op = "schema.build" /\ SchemaBuild
    \/ c.op = "label" /\ Label(c.args[1])
    \/ c.op = "help" /\ Help(c.args[1])
    \/ c.op = "typ" /\ Typ(c.args[1])
    \/ c.op = "input_check" /\ InputCheck(c.args[1], c.args[2])
    \/ c.op = "default" /\ Default(c.args[1])
    \/ c.op = "display_if" /\ DisplayIf(c.args[1], c.args[2], c.args[3])
    \/ c.op = "field.build" /\ FieldBuild
    \/ c.op = "title" /\ Title(c.args[1])
    \/ c.op = "section.field" /\ SectionField(c.args[1])
    \/ c.op = "section.build" /\ SectionBuild

\* How many calls of the chain the builder has made
CallsMade(calls) == CHOOSE n \in 0..Len(calls) : MadeCalls(calls, n)

\* The next call of build_tls is made
NextTls ==
    LET n == CallsMade(BuildTlsCalls)
    IN  n < Len(BuildTlsCalls) /\ MakeCall(BuildTlsCalls[n + 1])

SpecTls == Init /\ [][NextTls]_vars

----------------------------------------------------------------------------
(* The TLS schemas: claim C22, under SpecTls *)

\* C22: build_tls meets every precondition of the builder: every field id it
\* names in list_fields, in section fields and in display_if_eq is registered
\* in the schema in progress when it is named, and every suffix() follows a
\* prefix(), so that no call of the chain ends in a fatal construction error.
C22_BuildTlsMeetsPreconditions == panic = None /\ call.ret # Panicked

----------------------------------------------------------------------------
(* Empty lists of values: claim C23, under SpecEval *)

\* Every eval of a display list has the condition cond and no values
OnlyEmpty(display, cond) ==
    \A i \in 1..Len(display) :
        display[i].condition = cond /\ display[i].values = << >>

\* Some eval of a display list has the condition cond and no values
SomeEmpty(display, cond) ==
    \E i \in 1..Len(display) :
        display[i].condition = cond /\ display[i].values = << >>

\* C23: a field or section whose display list holds only MatchAny evals with
\* an empty list of values, as display_if_eq(field, []) makes them, is visible
\* under no value source; a display list that holds a MatchNone eval with an
\* empty list of values is visible under every value source.
C23_EmptyValueLists ==
    call.op \in {"Field::display", "Section::display"} =>
        /\ (DisplayedList # << >> /\ OnlyEmpty(DisplayedList, "MatchAny")) =>
              \A v \in SettingsSet : call.ret[2][v] = FALSE
        /\ SomeEmpty(DisplayedList, "MatchNone") =>
              \A v \in SettingsSet : call.ret[2][v] = TRUE

\* A field built with display_if_eq(field, []) as its only display condition
\* was asked whether it is displayed, and is not under any value source,
\* whether that source has a value for the referenced field or not.
C23_Witness ==
    /\ call.op = "Field::display"
    /\ Len(DisplayedList) = 1
    /\ OnlyEmpty(DisplayedList, "MatchAny")
    /\ \A v \in SettingsSet : call.ret[2][v] = FALSE
    /\ \E v \in SettingsSet : fieldArcs[DisplayedList[1].field].id \in DOMAIN v
    /\ \E v \in SettingsSet : fieldArcs[DisplayedList[1].field].id \notin DOMAIN v

----------------------------------------------------------------------------
(* SpecChain: the fields of one schema are started one from the other with *)
(* new_field at the Field stage, after any of the settings of a field were *)
(* made on the field in progress; the finished registry resolves their     *)
(* defaults and placeholders against a value source.                       *)

\* The most settings made on all fields, those a field inherits included
MaxSettings == 4

\* The settings of a field that differ from those of Field::default, the kind
\* Input of new_field taken as no setting
FieldSettings(f) ==
    FieldRefs(f) + ValueSize(f.placeholder) + KindSet(f) + Len(f.help)
    + (IF f.label_form = "" THEN 0 ELSE 1) + (IF f.readonly THEN 1 ELSE 0)

RECURSIVE SumAllSettings(_)
SumAllSettings(seq) ==
    IF seq = << >> THEN 0 ELSE FieldSettings(Head(seq)) + SumAllSettings(Tail(seq))

ChainSettings == SumAllSettings(fieldArcs) + FieldSettings(field)

\* The value sources: each field id absent, "on" or "off"
ChainSources == UNION {[keys -> {"on", "off"}] : keys \in SUBSET FieldIds}

NextChain ==
    \/ schemaArcs = << >> /\ NewSchema("s")
    \/ BuilderBuild
    \/ \E id \in FieldIds : Len(fieldArcs) < MaxFieldArcs /\ SchemaNewField(id)
    \/ \E id \in FieldIds : Len(fieldArcs) < MaxFieldArcs /\ FieldNewField(id)
    \/ ChainSettings < MaxSettings /\ field.label_form = "" /\ Label("Name")
    \/ ChainSettings < MaxSettings /\ field.help = None /\ Help("A name")
    \/ ChainSettings < MaxSettings /\ ~field.readonly /\ Readonly
    \/ ChainSettings < MaxSettings /\ field.typ_ = <<"Input">> /\ Typ(<<"Checkbox">>)
    \/ ChainSettings < MaxSettings /\ field.checks.default = None
       /\ InputCheck(<<"Trim">>, <<"Required">>)
    \/ ChainSettings < MaxSettings /\ field.checks.if_thens = << >>
       /\ \E id \in FieldIds : InputCheckIfEq(id, <<"on">>, <<"Trim">>, << >>)
    \/ ChainSettings + 1 < MaxSettings /\ field.default.default = None /\ Default("1s")
    \/ ChainSettings < MaxSettings /\ field.default.if_thens = << >>
       /\ \E id \in FieldIds : DefaultIfEq(id, <<"on">>, "30s")
    \/ ChainSettings < MaxSettings /\ field.placeholder.default # Some("hint")
       /\ Placeholder("hint")
    \/ ChainSettings < MaxSettings /\ field.display = << >>
       /\ \E id \in FieldIds : DisplayIf(id, <<"on">>, "MatchAny")
    \/ Len(fieldArcs) < MaxFieldArcs /\ FieldBuild
    \/ SchemaBuild
    \/ \E fid \in FieldIds : CallFieldDefault("s", fid, ChainSources)
    \/ \E fid \in FieldIds : CallFieldPlaceholder("s", fid, ChainSources)

SpecChain == Init /\ [][NextChain]_vars

----------------------------------------------------------------------------
(* new_field at the Field stage: claim C24, under SpecChain *)

\* C24: new_field(id) at the Field stage puts the field in progress, as it is,
\* under its own id in the field map of the schema in progress, as build()
\* does, and starts a field with the new id that has the kind, the display
\* evals and the check rules of the previous field, but empty labels, no help,
\* no default, no placeholder and readonly = false; the builder stays at the
\* Field stage.
C24_NewFieldAtFieldStage ==
    [][call'.op = "field.new_field" =>
          /\ stage = "field" /\ stage' = "field"
          /\ PushedLast(fieldArcs', fieldArcs, field)
          /\ Registered(schema'.fields, schema.fields, field.id, Len(fieldArcs'))
          /\ schema' = [schema EXCEPT !.fields = schema'.fields]
          /\ field'.id = call'.args[1]
          /\ field'.typ_ = field.typ_
          /\ field'.display = field.display
          /\ field'.checks = field.checks
          /\ field'.label_form = "" /\ field'.label_column = ""
          /\ field'.help = None
          /\ field'.default = DefaultValue
          /\ field'.placeholder = DefaultValue
          /\ field'.readonly = FALSE
          /\ UNCHANGED <<schemas, schemaArcs, section>>
      ]_vars

\* new_field("b") was called on a field "a" that had a label, a display
\* condition, a default and with it a placeholder: "a" is in the field map with
\* all of them, and "b" has the display condition but none of the others.
C24_Witness ==
    /\ call.op = "field.new_field"
    /\ stage = "field"
    /\ field.id = "b"
    /\ "a" \in DOMAIN schema.fields
    /\ schema.fields["a"] = Len(fieldArcs)
    /\ LET previous == fieldArcs[Len(fieldArcs)]
       IN  /\ previous.id = "a"
           /\ previous.label_form = "Name"
           /\ previous.default.default = Some("1s")
           /\ previous.placeholder.default = Some("1s")
           /\ Len(previous.display) = 1
           /\ field.display = previous.display
           /\ field.label_form = ""
           /\ field.default = DefaultValue
           /\ field.placeholder = DefaultValue

----------------------------------------------------------------------------
(* Placeholders: claim C25, under SpecChain *)

\* The calls that start a field
StartsField == {"schema.new_field", "field.new_field", "new_id_field", "new_value_field"}

\* The calls of the Field stage that set something on the field in progress
\* other than placeholder() and default()
OtherFieldSettings ==
    {"label", "help", "readonly", "typ", "input_check", "input_check_if_eq",
     "default_if_eq", "display_if"}

\* C25: the placeholder of every field the builder constructs has no
\* conditional rules, so that placeholder(values) is the same under every value
\* source. Its fallback is absent in a field just started, it is the argument
\* of placeholder(p) after that call and the argument of default(d) after that
\* one, and no other call on the field, default_if_eq among them, changes it:
\* it is what the last of placeholder(p) and default(d) gave, or no value.
C25_PlaceholderIsUnconditional ==
    [][/\ \A f \in AllFields' : f.placeholder.if_thens = << >>
       /\ call'.op \in StartsField => field'.placeholder.default = None
       /\ call'.op \in {"placeholder", "default"} =>
            field'.placeholder.default = Some(call'.args[1])
       /\ call'.op \in OtherFieldSettings => field'.placeholder = field.placeholder
       /\ call'.op = "Field::placeholder" =>
            \A v \in DOMAIN call'.ret[2] :
                call'.ret[2][v]
                  = RegisteredField(call'.args[1], call'.args[2]).placeholder.default
      ]_vars

\* The placeholder of a registered field was read under every value source.
\* The field has a conditional default that holds under some sources only, the
\* fallback default "1s" and the placeholder "hint", which placeholder() set
\* after default(): the placeholder read is "hint" under every source.
C25_Witness ==
    /\ call.op = "Field::placeholder"
    /\ LET f == RegisteredField(call.args[1], call.args[2])
       IN  /\ Len(f.default.if_thens) = 1
           /\ f.default.default = Some("1s")
           /\ f.placeholder = [if_thens |-> << >>, default |-> Some("hint")]
           /\ \E v \in ChainSources : ValueEval(f.default, v) = Some("30s")
           /\ \E v \in ChainSources : ValueEval(f.default, v) = Some("1s")
    /\ \A v \in ChainSources : call.ret[2][v] = Some("hint")

----------------------------------------------------------------------------
(* SpecForm: a schema whose fields are displayed on conditions is built,   *)
(* and the finished registry is read with forms as the value source.       *)

\* FormValue (core/form.rs): the scalar Value of a string, and the Array of
\* strings as the variant that is not a scalar
FormValues ==
    {<<"Value", "on">>, <<"Value", "off">>, <<"Array", << >>>>, <<"Array", <<"on">>>>}

\* The forms of a schema: build_form's FormData with, for each field id, no
\* entry or any FormValue
FormSources(schemaArc) ==
    {[FormDataFrom(schemaArc) EXCEPT !.values = values] :
        values \in UNION {[keys -> FormValues] : keys \in SUBSET EvalFieldIds}}

NextForm ==
    \/ schemaArcs = << >> /\ \E id \in EvalSchemaIds : NewSchema(id)
    \/ BuilderBuild
    \/ \E id \in EvalFieldIds : Len(fieldArcs) < MaxFieldArcs /\ SchemaNewField(id)
    \/ AttrsMade < MaxAttrs
       /\ \E id \in EvalFieldIds, vs \in ValueLists, c \in Conditions : DisplayIf(id, vs, c)
    \/ FieldBuild
    \/ SchemaBuild
    \/ \E id \in EvalSchemaIds : BuildForm(id)
    \/ \E sid \in EvalSchemaIds, fid \in EvalFieldIds :
         CallFieldValue(sid, fid, FormSources(schemas[sid]))
    \/ \E sid \in EvalSchemaIds, fid \in EvalFieldIds, i \in 1..MaxAttrs :
         CallEvalEval(sid, fid, i, FormSources(schemas[sid]))
    \/ \E sid \in EvalSchemaIds, fid \in EvalFieldIds :
         CallFieldDisplay(sid, fid, FormSources(schemas[sid]))

SpecForm == Init /\ [][NextForm]_vars

----------------------------------------------------------------------------
(* Forms as the value source: claim C26, under SpecForm *)

\* Form v holds under key id a value that is not a FormValue::Value
NonScalar(v, id) == id \in DOMAIN v.values /\ v.values[id][1] # "Value"

\* Form v with no entry under key id
Without(v, id) ==
    [v EXCEPT !.values = [k \in DOMAIN v.values \ {id} |-> v.values[k]]]

\* C26: with a form as the value source, a key whose form value is not a
\* FormValue::Value reads as a key with no entry: for a field that holds such
\* a value, value() is the empty string, every MatchAny eval on the field is
\* false and every MatchNone eval on it is true, as in the same form without
\* the entry.
C26_NonScalarIsAbsent ==
    /\ call.op = "Field::value" =>
          \A v \in DOMAIN call.ret[2] :
              NonScalar(v, call.args[2]) =>
                  /\ call.ret[2][v] = ""
                  /\ call.ret[2][v] = call.ret[2][Without(v, call.args[2])]
    /\ call.op = "Eval::eval" =>
          LET id == fieldArcs[EvaluatedEval.field].id
          IN  \A v \in DOMAIN call.ret[2] :
                  NonScalar(v, id) =>
                      /\ call.ret[2][v] = (EvaluatedEval.condition = "MatchNone")
                      /\ call.ret[2][v] = call.ret[2][Without(v, id)]

\* A MatchAny eval whose values include "on" was evaluated under the forms of
\* the schema; under a form that holds the Array ["on"] for the referenced
\* field it is false, and under a form that holds the Value "on" it is true.
C26_Witness ==
    /\ call.op = "Eval::eval"
    /\ EvaluatedEval.condition = "MatchAny"
    /\ "on" \in ValuesOf(EvaluatedEval.values)
    /\ LET id == fieldArcs[EvaluatedEval.field].id
       IN  /\ \E v \in DOMAIN call.ret[2] :
                 /\ id \in DOMAIN v.values
                 /\ v.values[id] = <<"Array", <<"on">>>>
                 /\ call.ret[2][v] = FALSE
           /\ \E v \in DOMAIN call.ret[2] :
                 /\ id \in DOMAIN v.values
                 /\ v.values[id] = <<"Value", "on">>
                 /\ call.ret[2][v] = TRUE

====
